---- MODULE Spec2Model ----
(***************************************************************************)
(* Payment reconciliation of sketch-music-server: the campaign document's  *)
(* videos array, calculatePendingCampaignPayments and the per-creator      *)
(* payout loop of payCreator (latest revision of payments.js), with the    *)
(* PayPal call and every Firestore write as a separate awaited step.       *)
(* Money amounts are in cents.                                             *)
(***************************************************************************)
EXTENDS Integers, Sequences, FiniteSets, TLC

\* ---------------------------------------------------------------- bounds
MaxVideos == 2
MaxRuns == 2

Creators == {"u1", "u2"}
Statuses == {"pending", "approved"}
EarningsValues == {0, 500}
ActorId == "admin"

\* a user document: absent, without paymentEmail, or with one
NoDoc == [exists |-> FALSE, paymentEmail |-> ""]
UserDocs == {NoDoc,
             [exists |-> TRUE, paymentEmail |-> ""],
             [exists |-> TRUE, paymentEmail |-> "pp"]}

VARIABLES
    videos,        \* campaigns/{id}.videos : the stored array of submissions
    users,         \* users/{uid} documents
    videoDocs,     \* campaigns/{id}/videos/{videoId} documents (subcollection)
    transactions,  \* the transactions collection, in order of creation
    receipts,      \* campaigns/{id}.receipts
    payouts,       \* PayPal payout calls issued so far, with their outcome
    storeWrites,   \* every document-store write the engine has applied
    pc,            \* position of the reconciliation run
    run,           \* number of reconciliation runs started
    campaign,      \* the caller's snapshot of campaign.videos
    payments,      \* result of calculatePendingCampaignPayments
    i,             \* index of the for-loop over pendingPayments
    payoutResult,  \* payout_batch_id of the response being processed
    hasErrors,     \* payCreator's hasErrors flag
    error          \* phase whose failure was thrown ("none" if none)

\* state of the metrics refresh (helper.js) and of the pure helper functions
VARIABLES
    doc,           \* campaigns/{id} : the stored fields other than videos
    rpc,           \* position of each refresh run
    rsnap,         \* the campaign as each refresh run read it
    rmetrics,      \* metricsArray of each refresh run, filled as fetches settle
    routcome,      \* the results entry each refresh run pushed for the campaign
    refreshRuns,   \* number of refresh runs started
    fnPc,          \* which helper function has been applied to the inputs
    fnCampaign,    \* campaign argument of the helper function
    fnViews,       \* views argument of calculateEarnings
    fnResult       \* value the helper function returned

\* state of a submit command and of one multi-campaign refresh run
VARIABLES
    spc,           \* position of each creator's submit command
    ssnap,         \* campaignData as each submit command read it
    sdata,         \* submissionData each creator's latest accepted command built
    soutcome,      \* the reply each creator's latest submit command got
    submits,       \* number of submit commands each creator started
    store,         \* campaigns collection of the multi-campaign run
    campaigns,     \* the campaigns a run read at its start
    results,       \* the results list of the run
    ci,            \* index of the for-loop over campaigns
    runMetrics,    \* metricsArray of the campaign being processed
    runPc,         \* position of the run
    runReturn      \* what the run returned ("none" while running)

\* state of the upstream platform, of the rate limiter and of the two kinds
\* of one-time tokens
VARIABLES
    upstream,      \* what TikTok currently reports for each post
    now,           \* Date.now(), in ticks
    RATE_LIMIT,    \* the shared Map: key -> timestamps of accepted calls kept
    accepted,      \* per key, every timestamp at which a call was accepted
    lastReturn,    \* key and return value of the latest limiter call
    loginTokens,   \* discord_login_tokens/{token}
    discordIds,    \* users/{uid}.discord_id
    vpc,           \* position of each /verify-token request
    vreq,          \* body of each request and the token document it read
    vanswer,       \* the response each request got
    linkTokens,    \* socialMediaAccountLinkTokens/{uid}
    tiktokData,    \* users/{uid}.tiktokData : the linked TikTok accounts
    issued,        \* number of link tokens generated so far
    lpc,           \* position of each linkTikTokAccount call
    lreq,          \* arguments of each call and what it has read
    lanswer        \* what each call returned

payVars == <<videos, users, videoDocs, transactions, receipts, payouts,
             storeWrites, pc, run, campaign, payments, i, payoutResult,
             hasErrors, error>>

refreshVars == <<doc, rpc, rsnap, rmetrics, routcome, refreshRuns>>

fnVars == <<fnPc, fnCampaign, fnViews, fnResult>>

submitVars == <<spc, ssnap, sdata, soutcome, submits>>

runVars == <<store, campaigns, results, ci, runMetrics, runPc, runReturn>>

limiterVars == <<now, RATE_LIMIT, accepted, lastReturn>>

verifyVars == <<loginTokens, discordIds, vpc, vreq, vanswer>>

linkVars == <<linkTokens, tiktokData, issued, lpc, lreq, lanswer>>

tokenVars == <<verifyVars, linkVars>>

serviceVars == <<upstream, limiterVars, tokenVars>>

nonPayVars == <<refreshVars, fnVars, submitVars, runVars, serviceVars>>

vars == <<payVars, refreshVars, fnVars, submitVars, runVars, serviceVars>>

VideoIds == 1..MaxVideos

\* the stored video at index k has TikTok id k (ids are unique per post)
VideoRecords(k) ==
    [id : {k}, author_id : Creators, status : Statuses,
     hasBeenPaid : BOOLEAN, earnings : EarningsValues]

UnpaidDoc == [hasBeenPaid |-> FALSE, payoutAmountForVideo |-> 0, paidBy |-> ""]

NoPayments == [pendingPayments |-> <<>>, unpaidVideos |-> <<>>]

\* ------------------------------------------- calculatePendingCampaignPayments
ReasonPaidCheckedFirst(video) ==
    IF video.hasBeenPaid = TRUE THEN "Video has already been marked as paid"
    ELSE IF video.status /= "approved" THEN "Status was not 'approved'"
    ELSE IF video.earnings <= 0 THEN "The video has earned $0.00"
    ELSE ""

ReasonNoPaymentSent(video) ==
    IF video.status /= "approved" THEN "Status was not 'approved'"
    ELSE IF video.hasBeenPaid = TRUE THEN "Video has already been marked as paid"
    ELSE IF video.earnings <= 0 THEN "The video has earned $0.00"
    ELSE ""

EntryOfNeverFound(userPayoutData, authorId) == 0

\* position of the entry of authorId in userPayoutData, 0 when there is none
EntryOf(userPayoutData, authorId) ==
    IF \E k \in DOMAIN userPayoutData : userPayoutData[k].payeeId = authorId
    THEN CHOOSE k \in DOMAIN userPayoutData : userPayoutData[k].payeeId = authorId
    ELSE 0

RECURSIVE ForEachVideoOverwrite(_, _, _)
ForEachVideoOverwrite(vs, k, acc) ==
    IF k > Len(vs) THEN acc
    ELSE LET video == vs[k]
             reason == ReasonNoPaymentSent(video)
             e == EntryOf(acc.pendingPayments, video.author_id)
         IN IF reason /= ""
            THEN ForEachVideoOverwrite(vs, k + 1,
                   [acc EXCEPT !.unpaidVideos =
                       Append(@, [payeeId |-> video.author_id,
                                  reasonNoPaymentSent |-> reason,
                                  video |-> video])])
            ELSE IF e /= 0
            THEN ForEachVideoOverwrite(vs, k + 1,
                   [acc EXCEPT !.pendingPayments[e].amountOwed = video.earnings,
                               !.pendingPayments[e].videos = <<video>>])
            ELSE ForEachVideoOverwrite(vs, k + 1,
                   [acc EXCEPT !.pendingPayments =
                       Append(@, [payeeId |-> video.author_id,
                                  amountOwed |-> video.earnings,
                                  videos |-> <<video>>,
                                  paymentEmail |-> ""])])

RECURSIVE ForEachVideo(_, _, _)
ForEachVideo(vs, k, acc) ==
    IF k > Len(vs) THEN acc
    ELSE LET video == vs[k]
             reason == ReasonNoPaymentSent(video)
             e == EntryOf(acc.pendingPayments, video.author_id)
         IN IF reason /= ""
            THEN ForEachVideo(vs, k + 1,
                   [acc EXCEPT !.unpaidVideos =
                       Append(@, [payeeId |-> video.author_id,
                                  reasonNoPaymentSent |-> reason,
                                  video |-> video])])
            ELSE IF e /= 0
            THEN ForEachVideo(vs, k + 1,
                   [acc EXCEPT !.pendingPayments[e].amountOwed = @ + video.earnings,
                               !.pendingPayments[e].videos = Append(@, video)])
            ELSE ForEachVideo(vs, k + 1,
                   [acc EXCEPT !.pendingPayments =
                       Append(@, [payeeId |-> video.author_id,
                                  amountOwed |-> video.earnings,
                                  videos |-> <<video>>,
                                  paymentEmail |-> ""])])

\* spread of the user document over the payout entry (snapshot.exists only)
MergeUserData(entry, us) ==
    IF us[entry.payeeId].exists
    THEN [entry EXCEPT !.paymentEmail = us[entry.payeeId].paymentEmail]
    ELSE entry

calculatePendingCampaignPayments(vs, us) ==
    LET acc == ForEachVideo(vs, 1, NoPayments)
    IN [pendingPayments |->
            [k \in DOMAIN acc.pendingPayments |->
                MergeUserData(acc.pendingPayments[k], us)],
        unpaidVideos |-> acc.unpaidVideos]

VideoIdsOf(payment) == {payment.videos[k].id : k \in DOMAIN payment.videos}

\* the refresh and the helper-function variables while they are not in use
RefreshIdle ==
    /\ doc = [isComplete |-> FALSE]
    /\ rpc = <<>>
    /\ rsnap = <<>>
    /\ rmetrics = <<>>
    /\ routcome = <<>>
    /\ refreshRuns = 0

\* the creators whose submit commands may be in flight at the same time
Submitters == {"s1", "s2"}

SubmitIdle ==
    /\ spc = [s \in Submitters |-> "idle"]
    /\ ssnap = [s \in Submitters |-> <<>>]
    /\ sdata = [s \in Submitters |-> <<>>]
    /\ soutcome = [s \in Submitters |-> "none"]
    /\ submits = [s \in Submitters |-> 0]

RunIdle ==
    /\ store = <<>>
    /\ campaigns = <<>>
    /\ results = <<>>
    /\ ci = 0
    /\ runMetrics = <<>>
    /\ runPc = "unused"
    /\ runReturn = "none"

FnIdle ==
    /\ fnPc = "unused"
    /\ fnCampaign = <<>>
    /\ fnViews = <<>>
    /\ fnResult = <<>>

LimiterIdle ==
    /\ now = 0
    /\ RATE_LIMIT = <<>>
    /\ accepted = <<>>
    /\ lastReturn = <<>>

VerifyIdle ==
    /\ loginTokens = <<>>
    /\ discordIds = <<>>
    /\ vpc = <<>>
    /\ vreq = <<>>
    /\ vanswer = <<>>

LinkIdle ==
    /\ linkTokens = <<>>
    /\ tiktokData = <<>>
    /\ issued = 0
    /\ lpc = <<>>
    /\ lreq = <<>>
    /\ lanswer = <<>>

TokenIdle == VerifyIdle /\ LinkIdle

ServiceIdle ==
    /\ upstream = <<>>
    /\ LimiterIdle
    /\ TokenIdle

\* ------------------------------------------------------------------ Init
PayInit ==
    /\ \E n \in 0..MaxVideos :
         videos \in {vs \in [1..n -> UNION {VideoRecords(k) : k \in 1..n}] :
                        \A k \in 1..n : vs[k].id = k}
    /\ users \in [Creators -> UserDocs]
    /\ videoDocs = [v \in VideoIds |-> UnpaidDoc]
    /\ transactions = <<>>
    /\ receipts = <<>>
    /\ payouts = <<>>
    /\ storeWrites = <<>>
    /\ pc = "idle"
    /\ run = 0
    /\ campaign = <<>>
    /\ payments = NoPayments
    /\ i = 0
    /\ payoutResult = 0
    /\ hasErrors = FALSE
    /\ error = "none"
    /\ RefreshIdle
    /\ FnIdle
    /\ SubmitIdle
    /\ ServiceIdle
    /\ RunIdle


\* ------------------------------------------------------------ payCreator
payment == payments.pendingPayments[i]

\* inner catch: hasErrors = true, rethrow; the outer catch rethrows as well
Throw(phase) ==
    /\ hasErrors' = TRUE
    /\ error' = phase
    /\ pc' = "threw"

\* !payoutResult || !payoutResult.batch_header || !...payout_batch_id
ValidPayoutResultNoCheck(batchId) == TRUE
ValidPayoutResult(batchId) == batchId /= 0

\* the caller of the engine: read the campaign document, compute the pending
\* payments from it and hand both to payCreator
StartRun ==
    /\ pc \in {"idle", "returned", "threw"}
    /\ run < MaxRuns
    /\ run' = run + 1
    /\ campaign' = videos
    /\ payments' = calculatePendingCampaignPayments(videos, users)
    /\ i' = 1
    /\ hasErrors' = FALSE
    /\ error' = "none"
    /\ payoutResult' = 0
    /\ pc' = "loop"
    /\ UNCHANGED <<videos, users, videoDocs, transactions, receipts,
                   payouts, storeWrites>>
    /\ UNCHANGED nonPayVars

\* amountOwed.toFixed(2): the decimal string "<whole>.<two digits>" of an
\* amount of cents, and the amount PayPal reads from it
toFixed2(cents) == [whole |-> cents \div 100, frac |-> cents % 100]
AmountOf(value) == value.whole * 100 + value.frac

\* head of the for-loop: skip a non-positive amount, else issue the payout
SendPayout ==
    /\ pc = "loop"
    /\ i <= Len(payments.pendingPayments)
    /\ IF payment.amountOwed <= 0
       THEN /\ i' = i + 1
            /\ UNCHANGED <<payouts, pc>>
       ELSE /\ payouts' = Append(payouts,
                  [run |-> run, id |-> payment.payeeId,
                   paymentEmail |-> payment.paymentEmail,
                   payoutAmount |-> toFixed2(payment.amountOwed),
                   videoIds |-> VideoIdsOf(payment),
                   outcome |-> "sent", batchId |-> 0])
            /\ pc' = "awaitPayout"
            /\ UNCHANGED i
    /\ UNCHANGED <<videos, users, videoDocs, transactions, receipts,
                   storeWrites, run, campaign, payments, payoutResult,
                   hasErrors, error>>
    /\ UNCHANGED nonPayVars

\* the PayPal call settles: it raises, or it answers 2xx with or without a
\* payout_batch_id; a valid answer starts the transaction write
PayoutReturns ==
    /\ pc = "awaitPayout"
    /\ \E outcome \in {"ok", "empty", "error"} :
         LET batchId == IF outcome = "ok" THEN Len(payouts) ELSE 0
         IN /\ payouts' = [payouts EXCEPT ![Len(payouts)].outcome = outcome,
                                          ![Len(payouts)].batchId = batchId]
            /\ IF outcome = "error"
               THEN Throw("payout") /\ UNCHANGED payoutResult
               ELSE IF ~ValidPayoutResult(batchId)
               THEN Throw("invalid") /\ UNCHANGED payoutResult
               ELSE /\ payoutResult' = batchId
                    /\ pc' = "awaitTransaction"
                    /\ UNCHANGED <<hasErrors, error>>
    /\ UNCHANGED <<videos, users, videoDocs, transactions, receipts,
                   storeWrites, run, campaign, payments, i>>
    /\ UNCHANGED nonPayVars

\* await db.collection('transactions').add(transactionEntry)
TransactionAdd ==
    /\ pc = "awaitTransaction"
    /\ \E ok \in BOOLEAN :
         IF ok
         THEN /\ transactions' = Append(transactions,
                    [targetUserId |-> payment.payeeId,
                     amount |-> payment.amountOwed,
                     status |-> "completed",
                     paymentReference |-> payoutResult,
                     videoIds |-> VideoIdsOf(payment),
                     run |-> run])
              /\ storeWrites' = Append(storeWrites,
                    [kind |-> "transaction", run |-> run,
                     creator |-> payment.payeeId])
              /\ pc' = "awaitCommit"
              /\ UNCHANGED <<hasErrors, error>>
         ELSE /\ Throw("transaction")
              /\ UNCHANGED <<transactions, storeWrites>>
    /\ UNCHANGED <<videos, users, videoDocs, receipts, payouts, run,
                   campaign, payments, i, payoutResult>>
    /\ UNCHANGED nonPayVars

\* await batch.commit(): every campaigns/{id}/videos/{video.id} document of
\* the payment is updated, or none is (a missing document fails the batch)
BatchCommit ==
    /\ pc = "awaitCommit"
    /\ \E ok \in BOOLEAN :
         IF ok
         THEN /\ videoDocs' =
                    [v \in VideoIds |->
                        IF \E k \in DOMAIN payment.videos : payment.videos[k].id = v
                        THEN [hasBeenPaid |-> TRUE,
                              payoutAmountForVideo |->
                                  payment.videos[CHOOSE k \in DOMAIN payment.videos :
                                      payment.videos[k].id = v].earnings,
                              paidBy |-> ActorId]
                        ELSE videoDocs[v]]
              /\ storeWrites' = Append(storeWrites,
                    [kind |-> "videos", run |-> run,
                     creator |-> payment.payeeId])
              /\ pc' = "awaitReceipt"
              /\ UNCHANGED <<hasErrors, error>>
         ELSE /\ Throw("markPaid")
              /\ UNCHANGED <<videoDocs, storeWrites>>
    /\ UNCHANGED <<videos, users, transactions, receipts, payouts, run,
                   campaign, payments, i, payoutResult>>
    /\ UNCHANGED nonPayVars

\* await campaignRef.update({receipts: arrayUnion(receipt)}), then next creator
ReceiptAppend ==
    /\ pc = "awaitReceipt"
    /\ \E ok \in BOOLEAN :
         IF ok
         THEN /\ receipts' = Append(receipts,
                    [creator |-> payment.payeeId,
                     amount |-> payment.amountOwed,
                     batchId |-> payoutResult,
                     paid |-> VideoIdsOf(payment),
                     unpaidVideosCount |-> Len(payments.unpaidVideos),
                     processedBy |-> ActorId,
                     run |-> run])
              /\ storeWrites' = Append(storeWrites,
                    [kind |-> "receipt", run |-> run,
                     creator |-> payment.payeeId])
              /\ i' = i + 1
              /\ pc' = "loop"
              /\ UNCHANGED <<hasErrors, error>>
         ELSE /\ Throw("receipt")
              /\ UNCHANGED <<receipts, storeWrites, i>>
    /\ UNCHANGED <<videos, users, videoDocs, transactions, payouts, run,
                   campaign, payments, payoutResult>>
    /\ UNCHANGED nonPayVars

\* the loop is exhausted: if (hasErrors) throw ...; return { success: true }
Return ==
    /\ pc = "loop"
    /\ i > Len(payments.pendingPayments)
    /\ IF hasErrors
       THEN pc' = "threw" /\ error' = "hasErrors"
       ELSE pc' = "returned" /\ UNCHANGED error
    /\ UNCHANGED <<videos, users, videoDocs, transactions, receipts, payouts,
                   storeWrites, run, campaign, payments, i, payoutResult,
                   hasErrors>>
    /\ UNCHANGED nonPayVars

PayNext ==
    \/ StartRun
    \/ SendPayout
    \/ PayoutReturns
    \/ TransactionAdd
    \/ BatchCommit
    \/ ReceiptAppend
    \/ Return

PaySpec == PayInit /\ [][PayNext]_vars

PayTypeOK ==
    /\ pc \in {"idle", "loop", "awaitPayout", "awaitTransaction",
               "awaitCommit", "awaitReceipt", "returned", "threw"}
    /\ run \in 0..MaxRuns
    /\ Len(videos) <= MaxVideos
    /\ error \in {"none", "payout", "invalid", "transaction", "markPaid",
                  "receipt", "hasErrors"}


\* ------------------------------------------------------------ properties
Ended == pc \in {"returned", "threw"}

\* the creator whose payout was being processed when payCreator raised
FailedCreator == payment.payeeId

ConfirmedPayouts == {k \in DOMAIN payouts : payouts[k].outcome = "ok"}

WritesOf(kind, r, c) ==
    {k \in DOMAIN storeWrites : /\ storeWrites[k].kind = kind
                                /\ storeWrites[k].run = r
                                /\ storeWrites[k].creator = c}

TransactionsOf(r, c) ==
    {k \in DOMAIN transactions : /\ transactions[k].run = r
                                 /\ transactions[k].targetUserId = c}

\* C1: across reconciliation runs every submission is covered by at most one
\* confirmed external payout, and the pendingPayments of a run contain no
\* submission that a confirmed payout of an earlier run covered.
C1_NoDoublePay ==
    /\ \A v \in VideoIds :
         Cardinality({k \in ConfirmedPayouts : v \in payouts[k].videoIds}) <= 1
    /\ \A e \in DOMAIN payments.pendingPayments :
         \A v \in VideoIdsOf(payments.pendingPayments[e]) :
            ~\E k \in ConfirmedPayouts : /\ payouts[k].run < run
                                         /\ v \in payouts[k].videoIds

\* C2: once a creator's payout has completed (its receipt is appended), every
\* contributing submission has hasBeenPaid = TRUE in the campaign's stored
\* videos array, the state calculatePendingCampaignPayments reads.
C2_MarkedInStoredArray ==
    \A r \in DOMAIN receipts :
       \A v \in receipts[r].paid :
          \E k \in DOMAIN videos : videos[k].id = v /\ videos[k].hasBeenPaid = TRUE

\* C3: an external payout call is issued only while a Transaction with status
\* pending exists in the store for that creator and run.
C3_PendingBeforePayout ==
    [][Len(payouts') > Len(payouts) =>
          \E k \in TransactionsOf(run, payouts'[Len(payouts')].id) :
             transactions[k].status = "pending"]_vars

\* C4: every Transaction is created in status pending, is completed only
\* with a confirmed payout, and is never changed once completed or failed.
C4_TransactionLifecycle ==
    [][/\ Len(transactions') > Len(transactions) =>
             transactions'[Len(transactions')].status = "pending"
       /\ \A k \in DOMAIN transactions :
             /\ k \in DOMAIN transactions'
             /\ transactions[k].status \in {"completed", "failed"} =>
                   transactions'[k] = transactions[k]
             /\ (transactions'[k].status = "completed" =>
                   \E p \in ConfirmedPayouts :
                      payouts[p].batchId = transactions'[k].paymentReference)]_vars

\* C5: per creator the steps run in the order payout, confirmation,
\* transaction, marking, receipt, each only after the earlier ones succeeded:
\* a transaction is written only for a confirmed payout with a batch id, the
\* videos are marked only after the transaction, the receipt is appended only
\* after the marking, and a raised step is followed by no later step.
C5_PhaseOrder ==
    /\ \A k \in DOMAIN transactions :
          /\ transactions[k].paymentReference /= 0
          /\ \E p \in ConfirmedPayouts :
                /\ payouts[p].batchId = transactions[k].paymentReference
                /\ payouts[p].id = transactions[k].targetUserId
                /\ payouts[p].run = transactions[k].run
    /\ \A v \in VideoIds :
          videoDocs[v].hasBeenPaid =>
             \E p \in ConfirmedPayouts :
                payouts[p].batchId /= 0 /\ v \in payouts[p].videoIds
    /\ \A k \in DOMAIN storeWrites :
          LET w == storeWrites[k]
          IN /\ w.kind = "transaction" =>
                   \E p \in ConfirmedPayouts :
                      payouts[p].run = w.run /\ payouts[p].id = w.creator
             /\ w.kind = "videos" =>
                   \E j \in WritesOf("transaction", w.run, w.creator) : j < k
             /\ w.kind = "receipt" =>
                   \E j \in WritesOf("videos", w.run, w.creator) : j < k
    /\ \A r \in DOMAIN receipts :
          \A v \in receipts[r].paid : videoDocs[v].hasBeenPaid
    /\ pc = "threw" =>
          /\ error \in {"payout", "invalid", "transaction"} =>
                WritesOf("transaction", run, FailedCreator) = {}
          /\ error \in {"payout", "invalid", "transaction", "markPaid"} =>
                WritesOf("videos", run, FailedCreator) = {}
          /\ WritesOf("receipt", run, FailedCreator) = {}

\* a creator's whole sequence completed, and a later step of the run raised
C5_Witness ==
    /\ pc = "threw"
    /\ error = "markPaid"
    /\ \E r \in DOMAIN receipts : receipts[r].run = run

\* C6: a payout response without a batch id is a failure: no submission of the
\* creator is marked paid, no receipt is appended for it, and its Transaction
\* ends in status failed.
C6_InvalidResponseFails ==
    (pc = "threw" /\ error = "invalid") =>
       /\ WritesOf("videos", run, FailedCreator) = {}
       /\ WritesOf("receipt", run, FailedCreator) = {}
       /\ \A k \in TransactionsOf(run, FailedCreator) :
             transactions[k].status /= "completed"
       /\ \E k \in TransactionsOf(run, FailedCreator) :
             transactions[k].status = "failed"

\* C7: when the payout call, the confirmation check, the marking or the
\* receipt append of a creator fails, payCreator ends with that creator's
\* Transaction in status failed, and with no Transaction left pending.
C7_FailureMarksTransactionFailed ==
    (pc = "threw" /\ error \in {"payout", "invalid", "markPaid", "receipt"}) =>
       /\ \E k \in TransactionsOf(run, FailedCreator) :
             transactions[k].status = "failed"
       /\ \A k \in DOMAIN transactions : transactions[k].status /= "pending"

\* C8: a failure after the payout of a creator was confirmed leaves a
\* persisted critical alert record, and no reversing payout is ever issued.
C8_CriticalAlertPersisted ==
    /\ (pc = "threw" /\ error \in {"transaction", "markPaid", "receipt"}) =>
          \E k \in DOMAIN storeWrites :
             storeWrites[k].kind = "alert" /\ storeWrites[k].run = run
    /\ \A p \in DOMAIN payouts : AmountOf(payouts[p].payoutAmount) > 0

\* C9: when a payCreator batch has ended, every creator of the batch with
\* amount > 0 has had its own payout attempt, whatever happened to the others.
C9_EveryCreatorAttempted ==
    Ended =>
       \A e \in DOMAIN payments.pendingPayments :
          payments.pendingPayments[e].amountOwed > 0 =>
             \E p \in DOMAIN payouts :
                /\ payouts[p].run = run
                /\ payouts[p].id = payments.pendingPayments[e].payeeId

\* C10: every ended payCreator batch has persisted a batch-level summary.
C10_BatchSummaryPersisted ==
    Ended =>
       \E k \in DOMAIN storeWrites :
          storeWrites[k].kind = "batchSummary" /\ storeWrites[k].run = run


\* ------------------------------------ stale snapshot handed to payCreator
RemoveAt(seq, k) == [j \in 1..(Len(seq) - 1) |-> IF j < k THEN seq[j] ELSE seq[j + 1]]

\* the campaign document is changed by another writer after the caller read
\* it and before payCreator issues its first payout: a submission is removed
\* from the stored videos array or is marked paid there
ExternalMutation ==
    /\ pc = "loop"
    /\ i = 1
    /\ campaign = videos
    /\ \E k \in DOMAIN videos :
         \/ videos' = RemoveAt(videos, k)
         \/ /\ videos[k].hasBeenPaid = FALSE
            /\ videos' = [videos EXCEPT ![k].hasBeenPaid = TRUE]
    /\ UNCHANGED <<users, videoDocs, transactions, receipts, payouts,
                   storeWrites, pc, run, campaign, payments, i, payoutResult,
                   hasErrors, error>>
    /\ UNCHANGED nonPayVars

StalePayNext ==
    \/ PayNext
    \/ ExternalMutation

StalePaySpec == PayInit /\ [][StalePayNext]_vars

\* C11: a payout call is issued only when, in the campaign state stored at
\* that moment, every video of the attempt matches exactly one submission
\* that is not yet marked paid.
C11_PayoutAgainstFreshState ==
    [][Len(payouts') > Len(payouts) =>
          \A v \in payouts'[Len(payouts')].videoIds :
             /\ Cardinality({k \in DOMAIN videos : videos[k].id = v}) = 1
             /\ \A k \in DOMAIN videos :
                   videos[k].id = v => videos[k].hasBeenPaid = FALSE]_vars


\* C12: no payout call is issued to a creator without a payment email, and no
\* payout attempt for such a creator is in pendingPayments.
C12_NoPayoutWithoutDestination ==
    /\ \A p \in DOMAIN payouts : payouts[p].paymentEmail /= ""
    /\ \A e \in DOMAIN payments.pendingPayments :
          payments.pendingPayments[e].paymentEmail /= ""

RECURSIVE SumEarnings(_, _)
SumEarnings(vs, ids) ==
    IF vs = <<>> THEN 0
    ELSE (IF Head(vs).id \in ids THEN Head(vs).earnings ELSE 0)
         + SumEarnings(Tail(vs), ids)

UnpaidEntries(v) ==
    {u \in DOMAIN payments.unpaidVideos : payments.unpaidVideos[u].video = v}

AttachedPositions(v) ==
    {<<e, j>> \in (DOMAIN payments.pendingPayments) \X (1..(MaxVideos + 1)) :
        /\ j \in DOMAIN payments.pendingPayments[e].videos
        /\ payments.pendingPayments[e].videos[j] = v}

UnpaidWith(v, reason) ==
    /\ \E u \in UnpaidEntries(v) :
          /\ payments.unpaidVideos[u].reasonNoPaymentSent = reason
          /\ payments.unpaidVideos[u].payeeId = v.author_id
    /\ AttachedPositions(v) = {}

\* C14: each submission of the campaign handed to
\* calculatePendingCampaignPayments is classified by the first matching rule:
\* not approved, else already paid, else earnings <= 0, else payable; an
\* approved, paid submission with earnings is unpaid with the already-paid
\* reason and is attached to no payout attempt.
C14_FirstMatchWins ==
    pc /= "idle" =>
       \A k \in DOMAIN campaign :
          LET v == campaign[k]
          IN /\ v.status /= "approved" =>
                   UnpaidWith(v, "Status was not 'approved'")
             /\ (v.status = "approved" /\ v.hasBeenPaid) =>
                   UnpaidWith(v, "Video has already been marked as paid")
             /\ (v.status = "approved" /\ ~v.hasBeenPaid /\ v.earnings <= 0) =>
                   UnpaidWith(v, "The video has earned $0.00")
             /\ (v.status = "approved" /\ ~v.hasBeenPaid /\ v.earnings > 0) =>
                   /\ UnpaidEntries(v) = {}
                   /\ AttachedPositions(v) /= {}

\* an approved, already paid submission with positive earnings was classified,
\* next to a payable one
C14_Witness ==
    /\ pc = "loop"
    /\ \E k \in DOMAIN campaign :
          /\ campaign[k].status = "approved"
          /\ campaign[k].hasBeenPaid
          /\ campaign[k].earnings > 0
    /\ Len(payments.pendingPayments) = 1

RECURSIVE SumSeqEarnings(_)
SumSeqEarnings(vs) ==
    IF vs = <<>> THEN 0 ELSE Head(vs).earnings + SumSeqEarnings(Tail(vs))

PayableIn(vs, c) ==
    {k \in DOMAIN vs : /\ vs[k].author_id = c
                       /\ vs[k].status = "approved"
                       /\ ~vs[k].hasBeenPaid
                       /\ vs[k].earnings > 0}

\* C15: the result of calculatePendingCampaignPayments partitions the
\* submissions: each is exactly once in unpaidVideos or exactly once in the
\* videos of one payout attempt; there is exactly one attempt per creator with
\* a payable submission, holding only that creator's videos, and its
\* amountOwed is the sum of their earnings.
C15_Partition ==
    pc /= "idle" =>
       /\ \A k \in DOMAIN campaign :
             Cardinality(UnpaidEntries(campaign[k]))
                + Cardinality(AttachedPositions(campaign[k])) = 1
       /\ \A u \in DOMAIN payments.unpaidVideos :
             \E k \in DOMAIN campaign : campaign[k] = payments.unpaidVideos[u].video
       /\ \A e \in DOMAIN payments.pendingPayments :
             \A j \in DOMAIN payments.pendingPayments[e].videos :
                \E k \in DOMAIN campaign :
                   campaign[k] = payments.pendingPayments[e].videos[j]
       /\ \A c \in Creators :
             Cardinality({e \in DOMAIN payments.pendingPayments :
                             payments.pendingPayments[e].payeeId = c})
                = IF PayableIn(campaign, c) = {} THEN 0 ELSE 1
       /\ \A e \in DOMAIN payments.pendingPayments :
             LET p == payments.pendingPayments[e]
             IN /\ p.amountOwed = SumSeqEarnings(p.videos)
                /\ Len(p.videos) = Cardinality(PayableIn(campaign, p.payeeId))
                /\ \A j \in DOMAIN p.videos : p.videos[j].author_id = p.payeeId

\* one payout attempt that aggregates two submissions of the same creator
C15_Witness ==
    /\ pc = "loop"
    /\ Len(payments.pendingPayments) = 1
    /\ Len(payments.pendingPayments[1].videos) = 2
    /\ payments.pendingPayments[1].amountOwed = 1000


\* ------------------------------------------------ JavaScript number values
\* a value is a finite number (t = "num"), NaN, +/-Infinity (n = sign), or
\* something whose typeof is not 'number' (undefined, a string)
Num(n) == [t |-> "num", n |-> n]
NaN == [t |-> "nan", n |-> 0]
Infinity == [t |-> "inf", n |-> 1]
NotANumberType == [t |-> "undefined", n |-> 0]

\* Number(x): undefined and non-numeric strings convert to NaN
ToNumber(x) == IF x.t \in {"num", "nan", "inf"} THEN x ELSE NaN

Sign(n) == IF n > 0 THEN 1 ELSE IF n < 0 THEN -1 ELSE 0
Abs(n) == IF n < 0 THEN -n ELSE n
Min(a, b) == IF a <= b THEN a ELSE b

\* ---------------------------------------------------- calculateEarnings
\* rates are dollars per million views, earnings and caps are cents

\* the pairs (rate, views) of the inputs used here whose double product
\* (rate / 1000000) * views lies below the exact half cent it stands for:
\* (1 / 1000000) * 15000 is 0.01499999999999999944...
DoubleBelowTie == {<<1, 15000>>}

\* Number(x.toFixed(2)) in cents for x = (rate / 1000000) * views >= 0:
\* toFixed rounds the double to the nearest cent, an exact half goes up
ToFixedCents(rate, views) ==
    IF (rate * views) % 10000 = 5000 /\ <<rate, views>> \in DoubleBelowTie
    THEN (rate * views) \div 10000
    ELSE (rate * views + 5000) \div 10000

\* Number(((rate / 1000000) * views).toFixed(2)) for any two numbers
Amount(rate, views) ==
    IF rate.t = "num" /\ views.t = "num"
    THEN Num(Sign(rate.n) * Sign(views.n) * ToFixedCents(Abs(rate.n), Abs(views.n)))
    ELSE IF Sign(rate.n) * Sign(views.n) = 0 THEN NaN
    ELSE [t |-> "inf", n |-> Sign(rate.n) * Sign(views.n)]

\* amount > cap for a finite cap
GreaterThan(amount, cap) ==
    CASE amount.t = "num" -> amount.n > cap
      [] amount.t = "inf" -> amount.n > 0
      [] OTHER -> FALSE

NoCampaign == [missing |-> TRUE]

calculateEarnings(c, views) ==
    IF c = NoCampaign \/ views.t \notin {"num", "inf"}
    THEN Num(0)
    ELSE LET rate == ToNumber(c.ratePerMillion)
         IN IF rate.t = "nan" THEN Num(0)
            ELSE LET amount == Amount(rate, views)
                 IN IF c.maxCreatorEarningsPerPost /= 0
                       /\ GreaterThan(amount, c.maxCreatorEarningsPerPost)
                    THEN Num(c.maxCreatorEarningsPerPost)
                    ELSE amount

\* ---------------------------------------- checkCampaignCompletionCriteria
\* budget and budgetUsed are dollars; 0 (like undefined) is a falsy limit
CompletionStrictlyAbove(c) ==
    \/ c.budget /= 0 /\ c.budgetUsed > c.budget
    \/ c.maxSubmissions /= 0 /\ Len(c.videos) > c.maxSubmissions

checkCampaignCompletionCriteria(c) ==
    IF c.budget /= 0 /\ c.budgetUsed >= c.budget THEN TRUE
    ELSE IF c.maxSubmissions /= 0 /\ Len(c.videos) >= c.maxSubmissions THEN TRUE
    ELSE FALSE

\* ------------------------------------- the helper functions on their own
RateValues == {Num(0), Num(1), Num(1000), NaN, Infinity, NotANumberType}
ViewValues == {Num(0), Num(5000), Num(15000), Num(100000), Num(1000000),
               Num(-100000), NaN, NotANumberType}
CapValues == {0, 5000}
BudgetValues == {0, 1000}
BudgetUsedValues == {0, 999, 1000, 1200}
MaxSubmissionsValues == {0, 1, 2}

FnCampaigns ==
    [ratePerMillion : RateValues,
     maxCreatorEarningsPerPost : CapValues,
     budget : BudgetValues,
     budgetUsed : BudgetUsedValues,
     maxSubmissions : MaxSubmissionsValues,
     videos : {[k \in 1..n |-> k] : n \in 0..MaxVideos}]

PayIdle ==
    /\ videos = <<>>
    /\ users = [c \in Creators |-> NoDoc]
    /\ videoDocs = [v \in VideoIds |-> UnpaidDoc]
    /\ transactions = <<>>
    /\ receipts = <<>>
    /\ payouts = <<>>
    /\ storeWrites = <<>>
    /\ pc = "idle"
    /\ run = 0
    /\ campaign = <<>>
    /\ payments = NoPayments
    /\ i = 0
    /\ payoutResult = 0
    /\ hasErrors = FALSE
    /\ error = "none"

FnInit ==
    /\ fnPc = "input"
    /\ fnCampaign \in FnCampaigns \cup {NoCampaign}
    /\ fnViews \in ViewValues
    /\ fnResult = <<>>
    /\ PayIdle
    /\ RefreshIdle
    /\ SubmitIdle
    /\ ServiceIdle
    /\ RunIdle

CallCalculateEarnings ==
    /\ fnPc = "input"
    /\ fnResult' = calculateEarnings(fnCampaign, fnViews)
    /\ fnPc' = "calculateEarnings"
    /\ UNCHANGED <<fnCampaign, fnViews, payVars, refreshVars, submitVars, runVars,
                 serviceVars>>

CallCheckCampaignCompletionCriteria ==
    /\ fnPc = "input"
    /\ fnCampaign /= NoCampaign
    /\ fnResult' = checkCampaignCompletionCriteria(fnCampaign)
    /\ fnPc' = "checkCampaignCompletionCriteria"
    /\ UNCHANGED <<fnCampaign, fnViews, payVars, refreshVars, submitVars, runVars,
                 serviceVars>>

FnNext ==
    \/ CallCalculateEarnings
    \/ CallCheckCampaignCompletionCriteria

FnSpec == FnInit /\ [][FnNext]_vars

\* C16: for a finite rate >= 0 and views >= 0, calculateEarnings returns the
\* exact product rate / 1,000,000 * views rounded half-up to the cent, and the
\* smaller of that and the per-post cap when a cap is set.
C16_RoundedEarnings ==
    (/\ fnPc = "calculateEarnings"
     /\ fnCampaign /= NoCampaign
     /\ fnViews.t = "num" /\ fnViews.n >= 0
     /\ fnCampaign.ratePerMillion.t = "num"
     /\ fnCampaign.ratePerMillion.n >= 0) =>
          LET exact == (fnCampaign.ratePerMillion.n * fnViews.n + 5000) \div 10000
              cap == fnCampaign.maxCreatorEarningsPerPost
          IN fnResult = Num(IF cap /= 0 THEN Min(cap, exact) ELSE exact)

\* C17: calculateEarnings returns 0 for a missing campaign, for views that are
\* not a number, NaN or negative, and for a rate that is NaN or infinite.
C17_InvalidInputsGiveZero ==
    (/\ fnPc = "calculateEarnings"
     /\ \/ fnCampaign = NoCampaign
        \/ fnViews.t /= "num"
        \/ fnViews.n < 0
        \/ ToNumber(fnCampaign.ratePerMillion).t /= "num") =>
       fnResult = Num(0)

\* C20: checkCampaignCompletionCriteria is true exactly when the budget is
\* set and budgetUsed has reached it, or maxSubmissions is set and the number
\* of videos has reached it; the campaign passed in is left as it was.
C20_CompletionPolicy ==
    fnPc = "checkCampaignCompletionCriteria" =>
       /\ fnResult \in BOOLEAN
       /\ fnResult = TRUE <=>
             \/ fnCampaign.budget > 0 /\ ~(fnCampaign.budgetUsed < fnCampaign.budget)
             \/ /\ fnCampaign.maxSubmissions > 0
                /\ \E n \in DOMAIN fnCampaign.videos : n = fnCampaign.maxSubmissions
       /\ fnCampaign \in FnCampaigns

\* the budget is exactly used up, the submission cap is not reached
C20_Witness ==
    /\ fnPc = "checkCampaignCompletionCriteria"
    /\ fnResult = TRUE
    /\ fnCampaign.budget = 1000
    /\ fnCampaign.budgetUsed = 1000
    /\ fnCampaign.maxSubmissions = 2
    /\ Len(fnCampaign.videos) = 1


\* ------------------------------------------------- updateCampaignMetrics
\* One campaign document, refreshed by up to two overlapping runs (the hourly
\* timer and an on-demand trigger).  budget and budgetUsed are dollars.
MaxRefreshRuns == 2
MaxSubmits == 1

Refreshers == {"timer", "demand"}

\* what getTikTokVideoData returns for a post (views: stats.playCount || 0)
FetchResults == {[views |-> 15000, shares |-> 1, comments |-> 2, likes |-> 3],
                 [views |-> 1000000, shares |-> 5, comments |-> 4, likes |-> 7]}

\* a fetch that has not settled; a settled one carries the id of its post
Pending == [id |-> -1, views |-> -1, shares |-> -1, comments |-> -1, likes |-> -1]

\* reduce over the videos: total + (video[field] || 0), every video counted
RECURSIVE SumFieldApproved(_, _)
SumFieldApproved(vs, field) ==
    IF vs = <<>> THEN 0
    ELSE (IF Head(vs).status = "approved" THEN Head(vs)[field] ELSE 0)
            + SumFieldApproved(Tail(vs), field)

RECURSIVE SumField(_, _)
SumField(vs, field) ==
    IF vs = <<>> THEN 0 ELSE Head(vs)[field] + SumField(Tail(vs), field)

\* Math.round((totalViews / 1000000) * ratePerMillion)
BudgetUsedOf(totalViews, rate) ==
    (totalViews \div 1000000) * rate
       + ((totalViews % 1000000) * rate + 500000) \div 1000000

\* the campaign object of a snapshot, as the helper functions receive it
CampaignOf(d, vs) ==
    [ratePerMillion |-> d.ratePerMillion,
     maxCreatorEarningsPerPost |-> d.maxCreatorEarningsPerPost,
     budget |-> d.budget,
     budgetUsed |-> d.budgetUsed,
     maxSubmissions |-> d.maxSubmissions,
     videos |-> vs]

\* earnings: calculateEarnings(campaign, metricsArray[index].views || 0); the
\* value replaces whatever the spread video carried
UpdatedEarningsAdded(snap, video, views) ==
    video.earnings
       + calculateEarnings(CampaignOf(snap.doc, snap.videos), Num(views)).n
UpdatedEarnings(snap, video, views) ==
    calculateEarnings(CampaignOf(snap.doc, snap.videos), Num(views)).n

\* updatedVideos: every video of the snapshot spread, then its metrics and
\* earnings replaced by those computed from metricsArray[index]
UpdatedVideosReversed(snap, metricsArray) ==
    LET n == Len(snap.videos)
    IN [k \in DOMAIN snap.videos |->
          [snap.videos[k] EXCEPT
              !.views = metricsArray[n + 1 - k].views,
              !.shares = metricsArray[n + 1 - k].shares,
              !.comments = metricsArray[n + 1 - k].comments,
              !.likes = metricsArray[n + 1 - k].likes,
              !.earnings = calculateEarnings(CampaignOf(snap.doc, snap.videos),
                                             Num(metricsArray[n + 1 - k].views)).n]]

UpdatedVideos(snap, metricsArray) ==
    [k \in DOMAIN snap.videos |->
        [snap.videos[k] EXCEPT
            !.views = metricsArray[k].views,
            !.shares = metricsArray[k].shares,
            !.comments = metricsArray[k].comments,
            !.likes = metricsArray[k].likes,
            !.earnings = UpdatedEarnings(snap, snap.videos[k],
                                         metricsArray[k].views)]]

\* campaignUpdate merged into the stored document
CampaignUpdateKeepsIsComplete(d, snap, updatedVideos) ==
    LET totalViews == SumField(updatedVideos, "views")
    IN [d EXCEPT
          !.views = totalViews,
          !.shares = SumField(updatedVideos, "shares"),
          !.comments = SumField(updatedVideos, "comments"),
          !.likes = SumField(updatedVideos, "likes"),
          !.budgetUsed = BudgetUsedOf(totalViews, snap.doc.ratePerMillion.n)]

CampaignUpdate(d, snap, updatedVideos) ==
    LET totalViews == SumField(updatedVideos, "views")
        budgetUsed == BudgetUsedOf(totalViews, snap.doc.ratePerMillion.n)
    IN [d EXCEPT
          !.views = totalViews,
          !.shares = SumField(updatedVideos, "shares"),
          !.comments = SumField(updatedVideos, "comments"),
          !.likes = SumField(updatedVideos, "likes"),
          !.budgetUsed = budgetUsed,
          !.isComplete = checkCampaignCompletionCriteria(
                            [CampaignOf(snap.doc, updatedVideos)
                                EXCEPT !.budgetUsed = budgetUsed])]

RefreshDocs ==
    [ratePerMillion : {Num(1000)},
     maxCreatorEarningsPerPost : CapValues,
     budget : BudgetValues,
     maxSubmissions : {0, MaxVideos},
     views : {0}, shares : {0}, comments : {0}, likes : {0},
     budgetUsed : {0}, isComplete : {FALSE}]

\* a stored array as an earlier refresh left it
StoredVideos(d) ==
    UNION {{UpdatedVideos([doc |-> d, videos |-> vs], ms) :
               ms \in [1..n -> {[views |-> 15000, shares |-> 1,
                                  comments |-> 2, likes |-> 3]}],
               vs \in {ws \in [1..n -> [id : 1..n, author_id : {"u1"},
                                        status : Statuses,
                                        hasBeenPaid : BOOLEAN,
                                        created_at : {0},
                                        earnings : {0}, views : {0}, shares : {0},
                                        comments : {0}, likes : {0}]] :
                          \A k \in 1..n :
                             /\ ws[k].id = k
                             /\ ws[k].hasBeenPaid => ws[k].status = "approved"}} :
           n \in 0..MaxVideos}

RefreshCampaignInit ==
    /\ \E d \in RefreshDocs :
         \E vs \in StoredVideos(d) :
            /\ videos = vs
            /\ doc = IF vs = <<>> THEN d
                     ELSE CampaignUpdate(d, [doc |-> d, videos |-> vs], vs)
    /\ rpc = [p \in Refreshers |-> "idle"]
    /\ rsnap = [p \in Refreshers |-> <<>>]
    /\ rmetrics = [p \in Refreshers |-> <<>>]
    /\ routcome = [p \in Refreshers |-> "none"]
    /\ refreshRuns = 0
    /\ users = [c \in Creators |-> NoDoc]
    /\ videoDocs = [v \in VideoIds |-> UnpaidDoc]
    /\ transactions = <<>>
    /\ receipts = <<>>
    /\ payouts = <<>>
    /\ storeWrites = <<>>
    /\ pc = "idle"
    /\ run = 0
    /\ campaign = <<>>
    /\ payments = NoPayments
    /\ i = 0
    /\ payoutResult = 0
    /\ hasErrors = FALSE
    /\ error = "none"
    /\ FnIdle
    /\ SubmitIdle
    /\ RunIdle

RefreshInit == RefreshCampaignInit /\ ServiceIdle

\* if (campaign.isComplete): the campaign is skipped
SkipNever(c) == FALSE
IsAlreadyComplete(c) == c.isComplete

\* if (!campaign.videos || !campaign.videos.length)
HasNoVideosNever(vs) == FALSE
HasNoVideos(vs) == vs = <<>>

\* the update issued for a campaign without videos
ZeroUpdate(d) ==
    [d EXCEPT !.views = 0, !.shares = 0, !.comments = 0, !.likes = 0,
              !.budgetUsed = 0]

refreshFrame == <<users, videoDocs, transactions, receipts, payouts,
                  storeWrites, pc, run, campaign, payments, i, payoutResult,
                  hasErrors, error, fnVars, runVars, serviceVars>>

\* the run reads the campaign; a complete campaign is skipped, an empty one
\* gets its metrics reset, otherwise one fetch per video is started
RefreshRead(p) ==
    /\ rpc[p] = "idle"
    /\ refreshRuns < MaxRefreshRuns
    /\ refreshRuns' = refreshRuns + 1
    /\ IF IsAlreadyComplete(doc)
       THEN /\ routcome' = [routcome EXCEPT ![p] = "skipped"]
            /\ UNCHANGED <<rpc, rsnap, rmetrics>>
       ELSE IF HasNoVideos(videos)
       THEN /\ rpc' = [rpc EXCEPT ![p] = "writeZero"]
            /\ rsnap' = [rsnap EXCEPT ![p] = [doc |-> doc, videos |-> videos]]
            /\ routcome' = [routcome EXCEPT ![p] = "none"]
            /\ UNCHANGED rmetrics
       ELSE /\ rpc' = [rpc EXCEPT ![p] = "fetch"]
            /\ rsnap' = [rsnap EXCEPT ![p] = [doc |-> doc, videos |-> videos]]
            /\ rmetrics' = [rmetrics EXCEPT ![p] = [k \in DOMAIN videos |-> Pending]]
            /\ routcome' = [routcome EXCEPT ![p] = "none"]
    /\ UNCHANGED <<doc, videos, refreshFrame, submitVars>>

\* the update of a campaign without videos is applied (or fails)
RefreshWriteZero(p) ==
    /\ rpc[p] = "writeZero"
    /\ rpc' = [rpc EXCEPT ![p] = "idle"]
    /\ rsnap' = [rsnap EXCEPT ![p] = <<>>]
    /\ \E ok \in BOOLEAN :
         IF ok
         THEN /\ doc' = ZeroUpdate(doc)
              /\ routcome' = [routcome EXCEPT ![p] = "success"]
         ELSE /\ routcome' = [routcome EXCEPT ![p] = "error"]
              /\ UNCHANGED doc
    /\ UNCHANGED <<videos, rmetrics, refreshRuns, refreshFrame, submitVars>>

\* one getTikTokVideoData settles with a result; the last one to settle
\* resolves Promise.all and the campaign update is issued
FetchSettles(p, k, m) ==
    /\ rpc[p] = "fetch"
    /\ k \in DOMAIN rmetrics[p]
    /\ rmetrics[p][k] = Pending
    /\ rmetrics' = [rmetrics EXCEPT
                       ![p][k] = [id |-> rsnap[p].videos[k].id] @@ m]
    /\ rpc' = [rpc EXCEPT ![p] =
                  IF \A j \in DOMAIN rmetrics[p] : j = k \/ rmetrics[p][j] /= Pending
                  THEN "write" ELSE "fetch"]
    /\ UNCHANGED <<doc, videos, rsnap, routcome, refreshRuns, refreshFrame, submitVars>>

\* the API may report any of the values
FetchReturns(p, k) == \E m \in FetchResults : FetchSettles(p, k, m)

\* one getTikTokVideoData rejects: Promise.all rejects, the catch records an
\* error entry for the campaign and nothing is written
FetchFails(p, k) ==
    /\ rpc[p] = "fetch"
    /\ k \in DOMAIN rmetrics[p]
    /\ rmetrics[p][k] = Pending
    /\ rpc' = [rpc EXCEPT ![p] = "idle"]
    /\ rsnap' = [rsnap EXCEPT ![p] = <<>>]
    /\ rmetrics' = [rmetrics EXCEPT ![p] = <<>>]
    /\ routcome' = [routcome EXCEPT ![p] = "error"]
    /\ UNCHANGED <<doc, videos, refreshRuns, refreshFrame, submitVars>>

\* videos: updatedVideos in campaignUpdate: the stored array is replaced by
\* the one computed from the snapshot
WrittenVideosMerged(stored, updatedVideos) ==
    updatedVideos \o SelectSeq(stored,
                               LAMBDA v : \A k \in DOMAIN updatedVideos :
                                             updatedVideos[k].id /= v.id)
WrittenVideos(stored, updatedVideos) == updatedVideos

\* db.collection('campaigns').doc(id).update(campaignUpdate) is applied: the
\* aggregate fields are merged and the videos array is replaced as a whole
RefreshWrite(p) ==
    /\ rpc[p] = "write"
    /\ rpc' = [rpc EXCEPT ![p] = "idle"]
    /\ rsnap' = [rsnap EXCEPT ![p] = <<>>]
    /\ rmetrics' = [rmetrics EXCEPT ![p] = <<>>]
    /\ \E ok \in BOOLEAN :
         IF ok
         THEN LET updatedVideos == UpdatedVideos(rsnap[p], rmetrics[p])
              IN /\ videos' = WrittenVideos(videos, updatedVideos)
                 /\ doc' = CampaignUpdate(doc, rsnap[p], updatedVideos)
                 /\ routcome' = [routcome EXCEPT ![p] = "success"]
         ELSE /\ routcome' = [routcome EXCEPT ![p] = "error"]
              /\ UNCHANGED <<doc, videos>>
    /\ UNCHANGED <<refreshRuns, refreshFrame, submitVars>>

\* the payout bookkeeping marks a submission paid in the stored videos array
MarkPaidInArray ==
    /\ \E k \in DOMAIN videos :
         /\ videos[k].hasBeenPaid = FALSE
         /\ videos[k].status = "approved"
         /\ videos' = [videos EXCEPT ![k].hasBeenPaid = TRUE]
    /\ UNCHANGED <<doc, rpc, rsnap, rmetrics, routcome, refreshRuns, refreshFrame, submitVars>>

RefreshRunNext ==
    \/ \E p \in Refreshers : RefreshRead(p)
    \/ \E p \in Refreshers : RefreshWriteZero(p)
    \/ \E p \in Refreshers : \E k \in 1..(MaxVideos + MaxSubmits) : FetchReturns(p, k)
    \/ \E p \in Refreshers : \E k \in 1..(MaxVideos + MaxSubmits) : FetchFails(p, k)
    \/ \E p \in Refreshers : RefreshWrite(p)

RefreshNext == RefreshRunNext \/ MarkPaidInArray

RefreshSpec == RefreshInit /\ [][RefreshNext]_vars

\* a step in which a refresh run's campaign update is applied
IsRefreshWrite ==
    \E p \in Refreshers : rpc[p] = "write" /\ rpc'[p] = "idle" /\ routcome'[p] = "success"

\* C18: the write of a refresh leaves the stored earnings of every submission
\* with hasBeenPaid = TRUE exactly as they were stored, whatever it fetched.
C18_PaidEarningsFrozen ==
    [][IsRefreshWrite =>
          \A k \in DOMAIN videos :
             (k \in DOMAIN videos' /\ videos[k].hasBeenPaid) =>
                videos'[k].earnings = videos[k].earnings]_vars

\* C19: the write of a refresh leaves every stored hasBeenPaid value as it
\* was right before the write.
C19_RefreshKeepsHasBeenPaid ==
    [][IsRefreshWrite =>
          \A k \in DOMAIN videos :
             k \in DOMAIN videos' /\ videos'[k].hasBeenPaid = videos[k].hasBeenPaid]_vars

\* a step in which a refresh run reads the campaign
IsRefreshRead == refreshRuns' = refreshRuns + 1

\* C21: a refresh that reads the campaign while its stored isComplete is true
\* writes nothing and starts no fetch: the document and the videos array are
\* unchanged, no run enters the fetch or write phase, and the outcome recorded
\* for the campaign by that run is 'skipped'.
C21_CompleteCampaignSkipped ==
    [][(IsRefreshRead /\ doc.isComplete) =>
          /\ doc' = doc
          /\ videos' = videos
          /\ rpc' = rpc
          /\ rmetrics' = rmetrics
          /\ \E p \in Refreshers :
                /\ routcome'[p] = "skipped"
                /\ \A q \in Refreshers \ {p} : routcome'[q] = routcome[q]]_vars

C21_Witness ==
    \E p \in Refreshers :
       /\ routcome[p] = "skipped"
       /\ rpc[p] = "idle"
       /\ doc.isComplete
       /\ videos /= <<>>

\* the metric fields of the stored campaign and of its submissions
StoredMetrics ==
    [views |-> doc.views, shares |-> doc.shares, comments |-> doc.comments,
     likes |-> doc.likes, budgetUsed |-> doc.budgetUsed,
     videos |-> [k \in DOMAIN videos |->
                   [views |-> videos[k].views, shares |-> videos[k].shares,
                    comments |-> videos[k].comments, likes |-> videos[k].likes,
                    earnings |-> videos[k].earnings]]]

\* C22: once the stored isComplete is true, every later step leaves it true
\* and leaves the stored campaign and per-submission metrics as they are,
\* also the write of a refresh that read the campaign before it was complete.
C22_CompletionTerminal ==
    [][doc.isComplete => (doc'.isComplete /\ StoredMetrics' = StoredMetrics)]_vars

\* ---------------------------------------------------- the submit command
\* One creator submits a post to the campaign while refreshes may be running.
\* A post's url is identified with its TikTok id.
SubmitUrls == 1..(MaxVideos + 1)

\* a field the object does not have
Undefined == -1

\* submissionData: the fetched metrics are stored with the time of the
\* command, there is no earnings field
SubmissionData(url, videoData, time) ==
    [id |-> url, author_id |-> "u1", status |-> "pending",
     hasBeenPaid |-> FALSE, earnings |-> Undefined, created_at |-> time,
     views |-> videoData.views, shares |-> videoData.shares,
     comments |-> videoData.comments, likes |-> videoData.likes]

\* existingVideos.some(video => video.url === videoUrl)
IsDuplicate(existingVideos, url) ==
    \E k \in DOMAIN existingVideos : existingVideos[k].id = url

\* the max submissions check on the campaign as read
LimitReached(campaignData, existingVideos) ==
    /\ campaignData.maxSubmissions /= 0
    /\ Len(existingVideos) >= campaignData.maxSubmissions

\* FieldValue.arrayUnion: the element is added unless an equal one is stored
ArrayUnion(array, element) ==
    IF \E k \in DOMAIN array : array[k] = element
    THEN array
    ELSE Append(array, element)

submitFrame == <<doc, rpc, rsnap, rmetrics, routcome, refreshRuns, refreshFrame>>

\* campaignRef.get() and the isComplete check on what was read
SubmitRead(s, url) ==
    /\ spc[s] = "idle"
    /\ submits[s] < MaxSubmits
    /\ submits' = [submits EXCEPT ![s] = @ + 1]
    /\ IF doc.isComplete
       THEN /\ soutcome' = [soutcome EXCEPT ![s] = "ended"]
            /\ UNCHANGED <<spc, ssnap>>
       ELSE /\ spc' = [spc EXCEPT ![s] = "fetch"]
            /\ ssnap' = [ssnap EXCEPT ![s] =
                            [doc |-> doc, videos |-> videos, url |-> url]]
            /\ soutcome' = [soutcome EXCEPT ![s] = "none"]
    /\ UNCHANGED <<videos, sdata, submitFrame>>

\* getTikTokVideoData(videoUrl) returns; the duplicate and limit checks run on
\* the campaign as read, and the arrayUnion update is issued if they pass
SubmitFetchReturns(s) ==
    /\ spc[s] = "fetch"
    /\ \E videoData \in FetchResults :
         IF IsDuplicate(ssnap[s].videos, ssnap[s].url)
         THEN /\ soutcome' = [soutcome EXCEPT ![s] = "duplicate"]
              /\ spc' = [spc EXCEPT ![s] = "idle"]
              /\ ssnap' = [ssnap EXCEPT ![s] = <<>>]
              /\ UNCHANGED sdata
         ELSE IF LimitReached(ssnap[s].doc, ssnap[s].videos)
         THEN /\ soutcome' = [soutcome EXCEPT ![s] = "full"]
              /\ spc' = [spc EXCEPT ![s] = "idle"]
              /\ ssnap' = [ssnap EXCEPT ![s] = <<>>]
              /\ UNCHANGED sdata
         ELSE /\ spc' = [spc EXCEPT ![s] = "append"]
              /\ sdata' = [sdata EXCEPT ![s] =
                              SubmissionData(ssnap[s].url, videoData, now)]
              /\ ssnap' = [ssnap EXCEPT ![s] = <<>>]
              /\ UNCHANGED soutcome
    /\ UNCHANGED <<videos, submits, submitFrame>>

\* getTikTokVideoData(videoUrl) throws: the catch replies with an error
SubmitFetchFails(s) ==
    /\ spc[s] = "fetch"
    /\ spc' = [spc EXCEPT ![s] = "idle"]
    /\ ssnap' = [ssnap EXCEPT ![s] = <<>>]
    /\ soutcome' = [soutcome EXCEPT ![s] = "error"]
    /\ UNCHANGED <<videos, sdata, submits, submitFrame>>

\* campaignRef.update({videos: arrayUnion(submissionData)}) is applied to the
\* stored array (or fails)
SubmitAppend(s) ==
    /\ spc[s] = "append"
    /\ spc' = [spc EXCEPT ![s] = "idle"]
    /\ \E ok \in BOOLEAN :
         IF ok
         THEN /\ videos' = ArrayUnion(videos, sdata[s])
              /\ soutcome' = [soutcome EXCEPT ![s] = "added"]
         ELSE /\ soutcome' = [soutcome EXCEPT ![s] = "error"]
              /\ UNCHANGED videos
    /\ UNCHANGED <<ssnap, sdata, submits, submitFrame>>

SubmitNext(s) ==
    \/ \E url \in SubmitUrls : SubmitRead(s, url)
    \/ SubmitFetchReturns(s)
    \/ SubmitFetchFails(s)
    \/ SubmitAppend(s)

\* campaigns without a per-post cap and without paid submissions
SubmitInit ==
    /\ RefreshInit
    /\ doc.maxCreatorEarningsPerPost = 0
    /\ \A k \in DOMAIN videos : ~videos[k].hasBeenPaid

\* one creator submits while refreshes may be running
SubmitSpec == SubmitInit /\ [][RefreshRunNext \/ SubmitNext("s1")]_vars

\* a step in which the submit command's append is applied
IsSubmitAppend ==
    \E s \in Submitters :
       spc[s] = "append" /\ spc'[s] = "idle" /\ Len(videos') = Len(videos) + 1

\* C23: whenever a submission is appended to the stored videos array, the
\* stored isComplete of the campaign is false at that moment.
C23_NoAppendToCompleteCampaign ==
    [][IsSubmitAppend => ~doc.isComplete]_vars

\* C25: in every reachable state the stored budgetUsed equals
\* round(sum of the stored submissions' views / 1,000,000 * ratePerMillion).
C25_BudgetUsedMatchesViews ==
    doc.budgetUsed = BudgetUsedOf(SumField(videos, "views"), doc.ratePerMillion.n)

\* C24: after a successful refresh write the stored isComplete is the
\* completion policy evaluated on the budgetUsed and the videos that the same
\* write stored.
C24_CompletionPersistedWithMetrics ==
    [][IsRefreshWrite =>
          doc'.isComplete =
             checkCampaignCompletionCriteria(CampaignOf(doc', videos'))]_vars

C24_Witness ==
    \E p \in Refreshers :
       /\ routcome[p] = "success"
       /\ videos /= <<>>
       /\ doc.budget /= 0
       /\ doc.budgetUsed >= doc.budget
       /\ doc.isComplete

\* the sum of one metric over a videos array, last video first
RECURSIVE TotalOf(_, _)
TotalOf(vs, field) ==
    IF Len(vs) = 0 THEN 0
    ELSE vs[Len(vs)][field] + TotalOf(SubSeq(vs, 1, Len(vs) - 1), field)

\* C26: after a successful refresh write each stored campaign total (views,
\* shares, comments, likes) is the sum of that metric over the stored videos
\* array, every submission counted whatever its status.
C26_TotalsAreSums ==
    [][IsRefreshWrite =>
          \A field \in {"views", "shares", "comments", "likes"} :
             doc'[field] = TotalOf(videos', field)]_vars

C26_Witness ==
    \E p \in Refreshers :
       /\ routcome[p] = "success"
       /\ \E k \in DOMAIN videos :
             videos[k].status = "pending" /\ videos[k].views = 1000000
       /\ \E k \in DOMAIN videos : videos[k].status = "approved"
       /\ doc.views = TotalOf(videos, "views")

C28_MetricsKeptWithTheirVideo ==
    [][\A p \in Refreshers :
          /\ rpc'[p] = "write" =>
                \A k \in DOMAIN rmetrics'[p] : rmetrics'[p][k] /= Pending
          /\ (rpc[p] = "write" /\ rpc'[p] = "idle" /\ routcome'[p] = "success") =>
                /\ Len(videos') = Len(rsnap[p].videos)
                /\ \A k \in DOMAIN videos' :
                      /\ videos'[k].id = rsnap[p].videos[k].id
                      /\ \A j \in DOMAIN rmetrics[p] :
                            rmetrics[p][j].id = videos'[k].id =>
                               \A field \in {"views", "shares", "comments", "likes"} :
                                  videos'[k][field] = rmetrics[p][j][field]]_vars

C28_Witness ==
    \E p \in Refreshers :
       /\ routcome[p] = "success"
       /\ Len(videos) = 2
       /\ videos[1].views = 1000000
       /\ videos[2].views = 15000

\* C29: in a campaign with at least two submissions a fetch that fails does
\* not end the campaign's refresh: the run goes on waiting for the other
\* fetches or issues its update, so that the other submissions' metrics are
\* still persisted.
C29_FetchFailureIsolated ==
    [][\A p \in Refreshers :
          (rpc[p] = "fetch" /\ Len(rsnap[p].videos) >= 2) =>
             rpc'[p] \in {"fetch", "write"}]_vars

\* ------------------------------------- one run over several campaigns
\* updateCampaignMetrics(campaignIds) from its query to its return value, the
\* campaigns processed one after the other.
MaxCampaigns == 2

\* the campaign documents the run can find: one without submissions and the
\* ones an earlier refresh left with one submission
RunCampaignValues ==
    LET d == [ratePerMillion |-> Num(1000), maxCreatorEarningsPerPost |-> 0,
              budget |-> 1000, maxSubmissions |-> 0,
              views |-> 0, shares |-> 0, comments |-> 0, likes |-> 0,
              budgetUsed |-> 0, isComplete |-> FALSE]
        v(st) == [id |-> 1, author_id |-> "u1", status |-> st,
                  hasBeenPaid |-> FALSE, earnings |-> 0, views |-> 0,
                  shares |-> 0, comments |-> 0, likes |-> 0]
    IN {[doc |-> d, videos |-> <<>>]}
       \cup {LET snap == [doc |-> d, videos |-> <<v(st)>>]
                 updatedVideos == UpdatedVideos(snap, <<m>>)
             IN [doc |-> CampaignUpdate(d, snap, updatedVideos),
                 videos |-> updatedVideos] :
             st \in Statuses, m \in FetchResults}

\* the campaignIds argument: null, or an array of ids (possibly empty)
CampaignIdsValues(n) ==
    {[isNull |-> TRUE, ids |-> {}]} \cup
    {[isNull |-> FALSE, ids |-> ids] : ids \in SUBSET (1..n)}

\* the documents of a query snapshot, in id order
RECURSIVE Docs(_, _)
Docs(ids, k) ==
    IF k > Len(store) THEN <<>>
    ELSE (IF k \in ids
          THEN <<[id |-> k, doc |-> store[k].doc, videos |-> store[k].videos]>>
          ELSE <<>>) \o Docs(ids, k + 1)

RunInit ==
    /\ \E n \in 0..MaxCampaigns : store \in [1..n -> RunCampaignValues]
    /\ campaigns = <<>>
    /\ results = <<>>
    /\ ci = 0
    /\ runMetrics = <<>>
    /\ runPc = "start"
    /\ runReturn = "none"
    /\ PayIdle
    /\ RefreshIdle
    /\ FnIdle
    /\ SubmitIdle
    /\ ServiceIdle

runFrame == <<payVars, refreshVars, fnVars, submitVars, serviceVars>>

\* where the run goes after the per-campaign catch has pushed its error entry
OnCampaignErrorAbort == "done"
OnCampaignError == "loop"

\* the per-campaign catch: one error entry with the message, then the loop
\* goes on
CatchCampaignError(message) ==
    /\ results' = Append(results, [campaignId |-> campaigns[ci].id,
                                   status |-> "error", error |-> message])
    /\ ci' = ci + 1
    /\ runPc' = OnCampaignError
    /\ runReturn' = IF OnCampaignError = "done" THEN "threw" ELSE runReturn

\* the argument check and the query for the campaigns
RunStart(campaignIds) ==
    /\ runPc = "start"
    /\ IF ~campaignIds.isNull /\ campaignIds.ids = {}
       THEN /\ runPc' = "done"
            /\ runReturn' = "threw"
            /\ UNCHANGED <<campaigns, ci>>
       ELSE \E ok \in BOOLEAN :
               IF ok
               THEN /\ campaigns' = Docs(IF campaignIds.isNull
                                         THEN DOMAIN store ELSE campaignIds.ids, 1)
                    /\ ci' = 1
                    /\ runPc' = "loop"
                    /\ UNCHANGED runReturn
               ELSE /\ runPc' = "done"
                    /\ runReturn' = "threw"
                    /\ UNCHANGED <<campaigns, ci>>
    /\ UNCHANGED <<store, results, runMetrics, runFrame>>

\* the head of the loop body: skip a complete campaign, or start the reset
\* or the fetches
RunCampaign ==
    /\ runPc = "loop"
    /\ ci <= Len(campaigns)
    /\ IF IsAlreadyComplete(campaigns[ci].doc)
       THEN /\ results' = Append(results, [campaignId |-> campaigns[ci].id,
                                           status |-> "skipped",
                                           error |-> "none"])
            /\ ci' = ci + 1
            /\ UNCHANGED runPc
       ELSE /\ runPc' = IF HasNoVideos(campaigns[ci].videos) THEN "zero" ELSE "fetch"
            /\ UNCHANGED <<results, ci>>
    /\ UNCHANGED <<store, campaigns, runMetrics, runReturn, runFrame>>

\* the reset of a campaign without videos is applied, or rejected
RunZero ==
    /\ runPc = "zero"
    /\ \E ok \in BOOLEAN :
         IF ok
         THEN /\ store' = [store EXCEPT ![campaigns[ci].id].doc = ZeroUpdate(@)]
              /\ results' = Append(results, [campaignId |-> campaigns[ci].id,
                                             status |-> "success",
                                             error |-> "none"])
              /\ ci' = ci + 1
              /\ runPc' = "loop"
              /\ UNCHANGED runReturn
         ELSE /\ CatchCampaignError("update failed")
              /\ UNCHANGED store
    /\ UNCHANGED <<campaigns, runMetrics, runFrame>>

\* Promise.all over the fetches of the campaign resolves, or rejects
RunFetch ==
    /\ runPc = "fetch"
    /\ \E ok \in BOOLEAN :
         IF ok
         THEN /\ \E ms \in [DOMAIN campaigns[ci].videos -> FetchResults] :
                    runMetrics' = ms
              /\ runPc' = "update"
              /\ UNCHANGED <<results, ci, runReturn>>
         ELSE /\ CatchCampaignError("fetch failed")
              /\ UNCHANGED runMetrics
    /\ UNCHANGED <<store, campaigns, runFrame>>

\* the campaign update is applied, or rejected
RunUpdate ==
    /\ runPc = "update"
    /\ runMetrics' = <<>>
    /\ \E ok \in BOOLEAN :
         IF ok
         THEN LET c == campaigns[ci]
                  snap == [doc |-> c.doc, videos |-> c.videos]
                  updatedVideos == UpdatedVideos(snap, runMetrics)
              IN /\ store' = [store EXCEPT
                                ![c.id] = [doc |-> CampaignUpdate(store[c.id].doc,
                                                                  snap, updatedVideos),
                                           videos |-> updatedVideos]]
                 /\ results' = Append(results, [campaignId |-> c.id,
                                                status |-> "success",
                                                error |-> "none"])
                 /\ ci' = ci + 1
                 /\ runPc' = "loop"
                 /\ UNCHANGED runReturn
         ELSE /\ CatchCampaignError("update failed")
              /\ UNCHANGED store
    /\ UNCHANGED <<campaigns, runFrame>>

\* the loop is over: return {success: true, results}
RunReturn ==
    /\ runPc = "loop"
    /\ ci > Len(campaigns)
    /\ runPc' = "done"
    /\ runReturn' = "success"
    /\ UNCHANGED <<store, campaigns, results, ci, runMetrics, runFrame>>

RunNext ==
    \/ \E campaignIds \in CampaignIdsValues(Len(store)) : RunStart(campaignIds)
    \/ RunCampaign
    \/ RunZero
    \/ RunFetch
    \/ RunUpdate
    \/ RunReturn

RunSpec == RunInit /\ [][RunNext]_vars

\* the run's continuation is resumed when the promise it awaits settles
\* (the fetch has a 10 s timeout, the store call resolves or rejects)
RunFairSpec == RunSpec /\ WF_vars(RunNext)

\* the outcome list so far has one well-formed entry per campaign processed,
\* in the order the campaigns were read, and only the argument check or the
\* initial query makes the run throw
OutcomesWellFormed ==
    /\ \A k \in DOMAIN results :
          /\ k \in DOMAIN campaigns
          /\ results[k].campaignId = campaigns[k].id
          /\ results[k].status \in {"success", "skipped", "error"}
          /\ (results[k].status = "error") = (results[k].error /= "none")
    /\ runPc \in {"loop", "zero", "fetch", "update"} => Len(results) = ci - 1
    /\ runReturn = "threw" => (results = <<>> /\ ci = 0)
    /\ runReturn = "success" => Len(results) = Len(campaigns)

\* C30: once the campaigns are read, a fetch or write failure on one campaign
\* never makes the run throw: the run goes on to the later campaigns and
\* returns success with exactly one outcome entry (success, skipped, or error
\* with a reason) for every campaign it read.
C30_RunSurvivesCampaignErrors ==
    /\ []OutcomesWellFormed
    /\ (runPc = "loop") ~> (runPc = "done" /\ runReturn = "success")

C30_Witness ==
    /\ runPc = "done"
    /\ runReturn = "success"
    /\ Len(results) = 2
    /\ results[1].status = "error"
    /\ results[2].status = "success"
    /\ store[2].doc.views = 1000000

\* ------------------------------------------ repeated and overlapping refreshes
\* the metrics stored with one submission
MetricsOfVideo(v) ==
    [views |-> v.views, shares |-> v.shares, comments |-> v.comments,
     likes |-> v.likes]

\* run p read the campaign as it is stored now: nothing was written to the
\* campaign or appended to its videos since p's read
SnapshotIsCurrent(p) ==
    /\ rsnap[p].doc = doc
    /\ Len(rsnap[p].videos) = Len(videos)
    /\ \A k \in DOMAIN videos :
          /\ rsnap[p].videos[k].id = videos[k].id
          /\ rsnap[p].videos[k].earnings = videos[k].earnings
          /\ MetricsOfVideo(rsnap[p].videos[k]) = MetricsOfVideo(videos[k])

\* the fetches of run p returned, for every submission, the values the
\* previous refresh stored
SameApiValues(p) ==
    \A k \in DOMAIN videos :
       /\ k \in DOMAIN rmetrics[p]
       /\ MetricsOfVideo(rmetrics[p][k]) = MetricsOfVideo(videos[k])

\* C31: the write of a refresh run that read the campaign as the previous
\* refresh left it (no submission and no other write in between) and whose
\* fetches returned the same values as those stored leaves the stored views,
\* shares, comments, likes, budgetUsed, isComplete and per-video earnings
\* exactly as they were.
C31_SecondRefreshChangesNothing ==
    [][\A p \in Refreshers :
          (/\ rpc[p] = "write"
           /\ rpc'[p] = "idle"
           /\ routcome'[p] = "success"
           /\ SnapshotIsCurrent(p)
           /\ SameApiValues(p)) =>
             /\ StoredMetrics' = StoredMetrics
             /\ doc'.isComplete = doc.isComplete]_vars

\* a second run is about to write what a first, finished run stored: the
\* first run raised a submission to 1000000 views and the second fetched the
\* same values
C31_Witness ==
    \E p \in Refreshers :
       /\ rpc[p] = "write"
       /\ refreshRuns = 2
       /\ \A q \in Refreshers \ {p} : rpc[q] = "idle" /\ routcome[q] = "success"
       /\ SnapshotIsCurrent(p)
       /\ SameApiValues(p)
       /\ \E k \in DOMAIN videos : videos[k].views = 1000000

\* C36: when the campaign's budget is set, the sum of the stored earnings
\* (cents) of its submissions is at most the budget (dollars).
C36_EarningsWithinBudget ==
    doc.budget /= 0 => TotalOf(videos, "earnings") <= doc.budget * 100

\* ------------------------------------------- refreshes while the posts grow
\* every post starts with the metrics the last refresh stored
GrowInit ==
    /\ RefreshCampaignInit
    /\ videos /= <<>>
    /\ upstream = [k \in DOMAIN videos |-> MetricsOfVideo(videos[k])]
    /\ LimiterIdle
    /\ TokenIdle

\* a post gains views: what the API reports for it never goes down
ViewsGrow(k) ==
    /\ k \in DOMAIN upstream
    /\ \E m \in FetchResults :
          /\ m.views > upstream[k].views
          /\ upstream' = [upstream EXCEPT ![k] = m]
    /\ UNCHANGED <<payVars, refreshVars, fnVars, submitVars, runVars, limiterVars,
                   tokenVars>>

\* getTikTokVideoData returns what the API reports at the time of the call
FetchReturnsUpstream(p, k) ==
    /\ rpc[p] = "fetch"
    /\ k \in DOMAIN rmetrics[p]
    /\ FetchSettles(p, k, upstream[rsnap[p].videos[k].id])

GrowNext ==
    \/ \E p \in Refreshers : RefreshRead(p)
    \/ \E p \in Refreshers : \E k \in 1..MaxVideos : FetchReturnsUpstream(p, k)
    \/ \E p \in Refreshers : \E k \in 1..MaxVideos : FetchFails(p, k)
    \/ \E p \in Refreshers : RefreshWrite(p)
    \/ \E k \in 1..MaxVideos : ViewsGrow(k)

GrowSpec == GrowInit /\ [][GrowNext]_vars

\* C32: while the stored campaign is not complete and the views the API
\* reports never decrease, the write of a refresh never lowers the stored
\* budgetUsed.
C32_BudgetUsedNeverDecreases ==
    [][(IsRefreshWrite /\ ~doc.isComplete) =>
          doc'.budgetUsed >= doc.budgetUsed]_vars

\* ------------------------------------------------ concurrent submit commands
MaxTime == 2

\* Date.now() advances
Tick ==
    /\ now < MaxTime
    /\ now' = now + 1
    /\ UNCHANGED <<payVars, refreshVars, fnVars, submitVars, runVars, upstream,
                   RATE_LIMIT, accepted, lastReturn, tokenVars>>

\* two creators submit to the same campaign; no refresh is running
DupNext ==
    \/ \E s \in Submitters : SubmitNext(s)
    \/ Tick

DupSpec == SubmitInit /\ [][DupNext]_vars

\* C34: no two submissions in the stored videos array have the same url.
C34_NoDuplicateUrl ==
    \A j, k \in DOMAIN videos : videos[j].id = videos[k].id => j = k

\* C35: when maxSubmissions is set, the stored videos array never holds more
\* than maxSubmissions submissions.
C35_MaxSubmissionsRespected ==
    doc.maxSubmissions /= 0 => Len(videos) <= doc.maxSubmissions

\* ------------------------------------------- a submission during a refresh
\* one refresh run and one submit command on a campaign without a budget
LostInit ==
    /\ SubmitInit
    /\ doc.budget = 0

LostNext ==
    \/ RefreshRead("timer")
    \/ RefreshWriteZero("timer")
    \/ \E k \in 1..(MaxVideos + MaxSubmits) : FetchReturns("timer", k)
    \/ \E k \in 1..(MaxVideos + MaxSubmits) : FetchFails("timer", k)
    \/ RefreshWrite("timer")
    \/ SubmitNext("s1")

LostSpec == LostInit /\ [][LostNext]_vars

\* C33: the write of a refresh run leaves in the stored videos array exactly
\* the submissions of the run's snapshot, in the snapshot's order, whatever
\* was appended since the run read the campaign; so a submission accepted
\* between the read and the write is absent afterwards.
C33_WriteStoresSnapshotOnly ==
    [][\A p \in Refreshers :
          (rpc[p] = "write" /\ rpc'[p] = "idle" /\ routcome'[p] = "success") =>
             /\ Len(videos') = Len(rsnap[p].videos)
             /\ \A k \in DOMAIN videos' : videos'[k].id = rsnap[p].videos[k].id]_vars

\* the submit command answered that the submission was added, the refresh
\* has written, and no stored submission has the submitted url
C33_Witness ==
    /\ soutcome["s1"] = "added"
    /\ routcome["timer"] = "success"
    /\ rpc["timer"] = "idle"
    /\ videos /= <<>>
    /\ ~IsDuplicate(videos, sdata["s1"].id)

\* --------------------------------------------------------- the rate limiter
\* Time is counted in ticks of 30 seconds.
\* RATE_LIMIT_WINDOW = 1000 * 60 ms
RATE_LIMIT_WINDOW == 2
MAX_REQUESTS == 5

\* the Discord user calling commands and the key the token endpoint uses
\* for the same person: `token_gen_${firebaseUserId}`
RateLimitKeys == {"u1", "token_gen_u1"}

\* RATE_LIMIT.get(key) || []
GetRequests(key) ==
    IF key \in DOMAIN RATE_LIMIT THEN RATE_LIMIT[key] ELSE <<>>

\* times.filter(time => now - time < RATE_LIMIT_WINDOW)
RecentTimes(times) ==
    SelectSeq(times, LAMBDA time : now - time < RATE_LIMIT_WINDOW)

\* if (recentRequests.length >= MAX_REQUESTS)
LimitExceededOnly(recentRequests) == Len(recentRequests) > MAX_REQUESTS
LimitReachedNow(recentRequests) == Len(recentRequests) >= MAX_REQUESTS

NoCall == [key |-> "none", limited |-> FALSE]

LimiterInit ==
    /\ now = 0
    /\ RATE_LIMIT = <<>>
    /\ accepted = [key \in RateLimitKeys |-> <<>>]
    /\ lastReturn = NoCall
    /\ upstream = <<>>
    /\ TokenIdle
    /\ PayIdle
    /\ RefreshIdle
    /\ FnIdle
    /\ SubmitIdle
    /\ RunIdle

limiterFrame == <<payVars, refreshVars, fnVars, submitVars, runVars, upstream,
                  tokenVars>>

\* the check-and-record both limiters perform, synchronously, under a key
CheckAndRecord(key) ==
    LET recentRequests == RecentTimes(GetRequests(key))
    IN IF LimitReachedNow(recentRequests)
       THEN /\ lastReturn' = [key |-> key, limited |-> TRUE]
            /\ UNCHANGED <<RATE_LIMIT, accepted>>
       ELSE /\ RATE_LIMIT' = (key :> Append(recentRequests, now)) @@ RATE_LIMIT
            /\ accepted' = [accepted EXCEPT ![key] = Append(@, now)]
            /\ lastReturn' = [key |-> key, limited |-> FALSE]

\* isRateLimited(userId), called by the command handlers
isRateLimited(userId) ==
    /\ CheckAndRecord(userId)
    /\ UNCHANGED <<now, limiterFrame>>

\* the inline check of /api/generate-social-media-account-link-token
TokenEndpointRateLimit ==
    /\ CheckAndRecord("token_gen_u1")
    /\ UNCHANGED <<now, limiterFrame>>

\* the setInterval callback: expired timestamps are dropped, empty keys deleted
CleanupRateLimit ==
    /\ RATE_LIMIT' = [key \in {k \in DOMAIN RATE_LIMIT :
                                  RecentTimes(RATE_LIMIT[k]) /= <<>>} |->
                         RecentTimes(RATE_LIMIT[key])]
    /\ lastReturn' = NoCall
    /\ UNCHANGED <<now, accepted, limiterFrame>>

\* Date.now() advances between calls
LimiterTick ==
    /\ now < MaxTime
    /\ now' = now + 1
    /\ lastReturn' = NoCall
    /\ UNCHANGED <<RATE_LIMIT, accepted, limiterFrame>>

LimiterNext ==
    \/ isRateLimited("u1")
    \/ TokenEndpointRateLimit
    \/ CleanupRateLimit
    \/ LimiterTick

LimiterSpec == LimiterInit /\ [][LimiterNext]_vars

\* the number of calls of a key accepted at a time t with from <= t < to
AcceptedBetween(key, from, to) ==
    Len(SelectSeq(accepted[key], LAMBDA t : from <= t /\ t < to))

\* C37: for every key and every window of length RATE_LIMIT_WINDOW at most
\* MAX_REQUESTS calls with a timestamp in the window were accepted; a call
\* that is rejected leaves the recorded timestamps as they were; and every
\* call is answered as the complete history of accepted calls of its key
\* requires, whatever the cleanup removed from the map.
C37_RateLimitHolds ==
    /\ [](\A key \in RateLimitKeys : \A start \in 0..MaxTime :
             AcceptedBetween(key, start, start + RATE_LIMIT_WINDOW) <= MAX_REQUESTS)
    /\ [][/\ lastReturn'.limited => RATE_LIMIT' = RATE_LIMIT
          /\ \A key \in RateLimitKeys :
                lastReturn'.key = key =>
                   (lastReturn'.limited <=>
                       AcceptedBetween(key, now - RATE_LIMIT_WINDOW + 1, now + 1)
                          >= MAX_REQUESTS)]_vars

\* a call was rejected although the map no longer holds every accepted
\* timestamp of its key (older ones were dropped) and time has passed
C37_Witness ==
    /\ lastReturn = [key |-> "u1", limited |-> TRUE]
    /\ now = MaxTime
    /\ Len(accepted["u1"]) > Len(GetRequests("u1"))
    /\ "token_gen_u1" \notin DOMAIN RATE_LIMIT
    /\ accepted["token_gen_u1"] /= <<>>

\* ------------------------------------------------- Discord login tokens
\* TOKEN_EXPIRY = 1000 * 60 * 15 ms, in ticks of 30 s
TOKEN_EXPIRY == 30

\* the tokens crypto.randomBytes can produce, each asked for by another
\* Discord user
LoginTokenIds == {"t1", "t2"}
DiscordIdOf(token) == IF token = "t1" THEN "d1" ELSE "d2"

FirebaseUsers == {"f1", "f2"}
VerifyRequests == {"r1", "r2"}

\* a token document that was never created, and one that was deleted
Unissued == [exists |-> FALSE, deleted |-> FALSE]
Deleted == [exists |-> FALSE, deleted |-> TRUE]

VerifyInit ==
    /\ loginTokens = [token \in LoginTokenIds |-> Unissued]
    /\ discordIds = [uid \in FirebaseUsers |-> "none"]
    /\ vpc = [r \in VerifyRequests |-> "idle"]
    /\ vreq = [r \in VerifyRequests |-> <<>>]
    /\ vanswer = [r \in VerifyRequests |-> "none"]
    /\ upstream = <<>>
    /\ LimiterIdle
    /\ LinkIdle
    /\ PayIdle
    /\ RefreshIdle
    /\ FnIdle
    /\ SubmitIdle
    /\ RunIdle

verifyFrame == <<payVars, refreshVars, fnVars, submitVars, runVars, upstream,
                 limiterVars, linkVars>>

\* /login: a fresh token document is created
handleLoginCommand(token) ==
    /\ loginTokens[token] = Unissued
    /\ loginTokens' = [loginTokens EXCEPT ![token] =
                          [exists |-> TRUE,
                           discord_id |-> DiscordIdOf(token),
                           expires_at |-> now + TOKEN_EXPIRY]]
    /\ UNCHANGED <<discordIds, vpc, vreq, vanswer, verifyFrame>>

\* the token document is read and checked
VerifyRead(r, token, firebaseUserId) ==
    /\ vpc[r] = "idle"
    /\ vanswer[r] = "none"
    /\ vreq' = [vreq EXCEPT ![r] =
                   [token |-> token, firebaseUserId |-> firebaseUserId,
                    tokenData |-> loginTokens[token]]]
    /\ IF ~loginTokens[token].exists
       THEN /\ vanswer' = [vanswer EXCEPT ![r] = "Token not found"]
            /\ UNCHANGED vpc
       ELSE IF loginTokens[token].expires_at < now
       THEN /\ vpc' = [vpc EXCEPT ![r] = "deleteExpired"]
            /\ UNCHANGED vanswer
       ELSE /\ vpc' = [vpc EXCEPT ![r] = "updateUser"]
            /\ UNCHANGED vanswer
    /\ UNCHANGED <<loginTokens, discordIds, verifyFrame>>

\* await tokenDoc.ref.delete() of an expired token
VerifyDeleteExpired(r) ==
    /\ vpc[r] = "deleteExpired"
    /\ vpc' = [vpc EXCEPT ![r] = "idle"]
    /\ \E ok \in BOOLEAN :
          IF ok
          THEN /\ loginTokens' = [loginTokens EXCEPT ![vreq[r].token] = Deleted]
               /\ vanswer' = [vanswer EXCEPT ![r] = "Token has expired"]
          ELSE /\ vanswer' = [vanswer EXCEPT ![r] = "Internal server error"]
               /\ UNCHANGED loginTokens
    /\ UNCHANGED <<discordIds, vreq, verifyFrame>>

\* users/{firebaseUserId}.update({discord_id: tokenData.discord_id})
VerifyUpdateUser(r) ==
    /\ vpc[r] = "updateUser"
    /\ \E ok \in BOOLEAN :
          IF ok
          THEN /\ discordIds' = [discordIds EXCEPT ![vreq[r].firebaseUserId] =
                                    vreq[r].tokenData.discord_id]
               /\ vpc' = [vpc EXCEPT ![r] = "deleteToken"]
               /\ UNCHANGED vanswer
          ELSE /\ vpc' = [vpc EXCEPT ![r] = "idle"]
               /\ vanswer' = [vanswer EXCEPT ![r] = "Internal server error"]
               /\ UNCHANGED discordIds
    /\ UNCHANGED <<loginTokens, vreq, verifyFrame>>

\* await tokenDoc.ref.delete() of the used token, then {success: true}
VerifyDeleteToken(r) ==
    /\ vpc[r] = "deleteToken"
    /\ vpc' = [vpc EXCEPT ![r] = "idle"]
    /\ \E ok \in BOOLEAN :
          IF ok
          THEN /\ loginTokens' = [loginTokens EXCEPT ![vreq[r].token] = Deleted]
               /\ vanswer' = [vanswer EXCEPT ![r] = "success"]
          ELSE /\ vanswer' = [vanswer EXCEPT ![r] = "Internal server error"]
               /\ UNCHANGED loginTokens
    /\ UNCHANGED <<discordIds, vreq, verifyFrame>>

\* more than the lifetime of a token passes
TokenLifetimePasses ==
    /\ now <= MaxTime
    /\ now' = now + TOKEN_EXPIRY
    /\ UNCHANGED <<payVars, refreshVars, fnVars, submitVars, runVars, upstream,
                   RATE_LIMIT, accepted, lastReturn, tokenVars>>

VerifyNext ==
    \/ \E token \in LoginTokenIds : handleLoginCommand(token)
    \/ \E r \in VerifyRequests : \E token \in LoginTokenIds :
          \E firebaseUserId \in FirebaseUsers : VerifyRead(r, token, firebaseUserId)
    \/ \E r \in VerifyRequests : VerifyDeleteExpired(r)
    \/ \E r \in VerifyRequests : VerifyUpdateUser(r)
    \/ \E r \in VerifyRequests : VerifyDeleteToken(r)
    \/ Tick
    \/ TokenLifetimePasses

VerifySpec == VerifyInit /\ [][VerifyNext]_vars

\* C38: a login token links at most one account: at most one user document
\* carries the Discord id of a token.
C38_TokenLinksOneAccount ==
    \A token \in LoginTokenIds :
       Cardinality({uid \in FirebaseUsers :
                       discordIds[uid] = DiscordIdOf(token)}) <= 1

\* -------------------------------------------- social-media link tokens
\* expires_at = Date.now() + 60 * 60 * 1000 ms, in ticks of 30 s
LinkTokenLifetime == 120

\* tokens are numbered in the order generateToken produced them
MaxTokens == 2

LinkCalls == {"c1", "c2"}
TikTokAccounts == {"x", "y"}
TokenOwners == {"f1"}

NoLinkToken == [exists |-> FALSE]

LinkInit ==
    /\ linkTokens = [uid \in TokenOwners |-> NoLinkToken]
    /\ tiktokData = [uid \in TokenOwners |-> {}]
    /\ issued = 0
    /\ lpc = [c \in LinkCalls |-> "idle"]
    /\ lreq = [c \in LinkCalls |-> <<>>]
    /\ lanswer = [c \in LinkCalls |-> "none"]
    /\ now = 0
    /\ RATE_LIMIT = <<>>
    /\ accepted = [key \in RateLimitKeys |-> <<>>]
    /\ lastReturn = NoCall
    /\ upstream = <<>>
    /\ VerifyIdle
    /\ PayIdle
    /\ RefreshIdle
    /\ FnIdle
    /\ SubmitIdle
    /\ RunIdle

linkFrame == <<payVars, refreshVars, fnVars, submitVars, runVars, upstream,
               verifyVars>>

\* POST /api/generate-social-media-account-link-token: after the rate limit
\* check the user's token document is overwritten with a new token
GenerateLinkToken(firebaseUserId) ==
    /\ issued < MaxTokens
    /\ CheckAndRecord("token_gen_u1")
    /\ IF lastReturn'.limited
       THEN UNCHANGED <<linkTokens, issued>>
       ELSE /\ issued' = issued + 1
            /\ linkTokens' = [linkTokens EXCEPT ![firebaseUserId] =
                                 [exists |-> TRUE, token |-> issued + 1,
                                  userId |-> firebaseUserId,
                                  expires_at |-> now + LinkTokenLifetime,
                                  used |-> FALSE]]
    /\ UNCHANGED <<now, tiktokData, lpc, lreq, lanswer, linkFrame>>

\* the documents where('token', '==', linkToken) finds
TokenQuery(linkToken) ==
    {uid \in TokenOwners :
        linkTokens[uid].exists /\ linkTokens[uid].token = linkToken}

\* the token is looked up and checked: missing, expired, used
LinkQuery(c, tiktokUsername, linkToken) ==
    /\ lpc[c] = "idle"
    /\ lanswer[c] = "none"
    /\ IF TokenQuery(linkToken) = {}
       THEN /\ lanswer' = [lanswer EXCEPT ![c] = "invalid"]
            /\ lreq' = [lreq EXCEPT ![c] =
                           [tiktokUsername |-> tiktokUsername,
                            linkToken |-> linkToken]]
            /\ UNCHANGED lpc
       ELSE \E uid \in TokenQuery(linkToken) :
               /\ lreq' = [lreq EXCEPT ![c] =
                              [tiktokUsername |-> tiktokUsername,
                               linkToken |-> linkToken,
                               tokenDoc |-> uid,
                               tokenData |-> linkTokens[uid],
                               currentTiktokData |-> {}]]
               /\ IF linkTokens[uid].expires_at < now
                  THEN /\ lpc' = [lpc EXCEPT ![c] = "deleteExpired"]
                       /\ UNCHANGED lanswer
                  ELSE IF linkTokens[uid].used
                  THEN /\ lanswer' = [lanswer EXCEPT ![c] = "used"]
                       /\ UNCHANGED lpc
                  ELSE /\ lpc' = [lpc EXCEPT ![c] = "fetchBio"]
                       /\ UNCHANGED lanswer
    /\ UNCHANGED <<linkTokens, tiktokData, issued, limiterVars, linkFrame>>

\* await tokenDoc.ref.delete() of an expired token: the document stored under
\* the reference is deleted, whatever it holds by now
LinkDeleteExpired(c) ==
    /\ lpc[c] = "deleteExpired"
    /\ lpc' = [lpc EXCEPT ![c] = "idle"]
    /\ \E ok \in BOOLEAN :
          IF ok
          THEN /\ linkTokens' = [linkTokens EXCEPT ![lreq[c].tokenDoc] = NoLinkToken]
               /\ lanswer' = [lanswer EXCEPT ![c] = "expired"]
          ELSE /\ lanswer' = [lanswer EXCEPT ![c] = "error"]
               /\ UNCHANGED linkTokens
    /\ UNCHANGED <<tiktokData, issued, lreq, limiterVars, linkFrame>>

\* the TikTok profile is fetched: the request throws, the bio lacks the
\* token, or the bio contains it
LinkFetchBio(c) ==
    /\ lpc[c] = "fetchBio"
    /\ \E outcome \in {"throws", "absent", "present"} :
          CASE outcome = "throws" ->
                 /\ lpc' = [lpc EXCEPT ![c] = "idle"]
                 /\ lanswer' = [lanswer EXCEPT ![c] = "error"]
            [] outcome = "absent" ->
                 /\ lpc' = [lpc EXCEPT ![c] = "idle"]
                 /\ lanswer' = [lanswer EXCEPT ![c] = "bio"]
            [] outcome = "present" ->
                 /\ lpc' = [lpc EXCEPT ![c] = "getUser"]
                 /\ UNCHANGED lanswer
    /\ UNCHANGED <<linkTokens, tiktokData, issued, lreq, limiterVars, linkFrame>>

\* the user's document is read; an account already in tiktokData is refused
LinkGetUser(c) ==
    /\ lpc[c] = "getUser"
    /\ LET userId == lreq[c].tokenData.userId
       IN IF lreq[c].tiktokUsername \in tiktokData[userId]
          THEN /\ lpc' = [lpc EXCEPT ![c] = "idle"]
               /\ lanswer' = [lanswer EXCEPT ![c] = "linked"]
               /\ UNCHANGED lreq
          ELSE /\ lpc' = [lpc EXCEPT ![c] = "updateUser"]
               /\ lreq' = [lreq EXCEPT ![c].currentTiktokData = tiktokData[userId]]
               /\ UNCHANGED lanswer
    /\ UNCHANGED <<linkTokens, tiktokData, issued, limiterVars, linkFrame>>

\* users/{userId}.update({tiktokVerified, tiktokData: updatedTiktokData})
LinkUpdateUser(c) ==
    /\ lpc[c] = "updateUser"
    /\ \E ok \in BOOLEAN :
          IF ok
          THEN /\ tiktokData' = [tiktokData EXCEPT ![lreq[c].tokenData.userId] =
                                    lreq[c].currentTiktokData
                                       \cup {lreq[c].tiktokUsername}]
               /\ lpc' = [lpc EXCEPT ![c] = "markUsed"]
               /\ UNCHANGED lanswer
          ELSE /\ lpc' = [lpc EXCEPT ![c] = "idle"]
               /\ lanswer' = [lanswer EXCEPT ![c] = "error"]
               /\ UNCHANGED tiktokData
    /\ UNCHANGED <<linkTokens, issued, lreq, limiterVars, linkFrame>>

\* tokenDoc.ref.update({used: true}): fails when the document is gone,
\* otherwise marks whatever token the document holds by now
LinkMarkUsed(c) ==
    /\ lpc[c] = "markUsed"
    /\ lpc' = [lpc EXCEPT ![c] = "idle"]
    /\ \E ok \in BOOLEAN :
          IF ok /\ linkTokens[lreq[c].tokenDoc].exists
          THEN /\ linkTokens' = [linkTokens EXCEPT ![lreq[c].tokenDoc].used = TRUE]
               /\ lanswer' = [lanswer EXCEPT ![c] = "success"]
          ELSE /\ lanswer' = [lanswer EXCEPT ![c] = "error"]
               /\ UNCHANGED linkTokens
    /\ UNCHANGED <<tiktokData, issued, lreq, limiterVars, linkFrame>>

\* the cron job deletes the token documents with expires_at < now
cleanupExpiredTokens ==
    /\ linkTokens' = [uid \in TokenOwners |->
                        IF linkTokens[uid].exists /\ linkTokens[uid].expires_at < now
                        THEN NoLinkToken ELSE linkTokens[uid]]
    /\ UNCHANGED <<tiktokData, issued, lpc, lreq, lanswer, limiterVars, linkFrame>>

\* more than the lifetime of a link token passes
LinkTokenLifetimePasses ==
    /\ now <= MaxTime
    /\ now' = now + LinkTokenLifetime
    /\ UNCHANGED <<payVars, refreshVars, fnVars, submitVars, runVars, upstream,
                   RATE_LIMIT, accepted, lastReturn, tokenVars>>

LinkNext ==
    \/ \E uid \in TokenOwners : GenerateLinkToken(uid)
    \/ \E c \in LinkCalls : \E name \in TikTokAccounts :
          \E linkToken \in 1..MaxTokens : LinkQuery(c, name, linkToken)
    \/ \E c \in LinkCalls : LinkDeleteExpired(c)
    \/ \E c \in LinkCalls : LinkFetchBio(c)
    \/ \E c \in LinkCalls : LinkGetUser(c)
    \/ \E c \in LinkCalls : LinkUpdateUser(c)
    \/ \E c \in LinkCalls : LinkMarkUsed(c)
    \/ cleanupExpiredTokens
    \/ Tick
    \/ LinkTokenLifetimePasses

LinkSpec == LinkInit /\ [][LinkNext]_vars

\* C39: at most one call of linkTikTokAccount succeeds with a given token.
C39_TokenUsedOnce ==
    \A linkToken \in 1..MaxTokens :
       Cardinality({c \in LinkCalls :
                       /\ lanswer[c] = "success"
                       /\ lreq[c].linkToken = linkToken}) <= 1

====
